---------------------------- MODULE Spec2Model ----------------------------
(***************************************************************************)
(* A model of the copperxpayout Telegram bot:                              *)
(*   - the Notification Relay (src/src/utils/pusherClient.js),             *)
(*   - the API Gateway and Credential Store (src/src/dependencies.js),     *)
(*   - the money-movement confirmation steps of the withdrawal and         *)
(*     transfer scenes (src/src/bot/commands/withdrawal.js, unnamed/part_006). *)
(* Time is counted in abstract ticks; the program's durations (retention   *)
(* window, rate-limit window, token lifetime) are scaled to a few ticks.   *)
(***************************************************************************)
EXTENDS Integers, Sequences, FiniteSets, TLC

\* null / undefined: of a string, of an object, of a number
Null == "null"
Absent == [absent |-> TRUE]
Undefined == -1

(***************************************************************************)
(* Bounds of the model.                                                    *)
(***************************************************************************)
MaxTime == 3
MaxEvents == 3
MaxCalls == 3
MaxUpdates == 4
\* the number of calls of requestEmailOtp
MaxOtp == 2
\* the number of calls of verifyEmailOtp
MaxAttempts == 3
\* the number of payees of a batch
MaxPayees == 2

(***************************************************************************)
(*                        NOTIFICATION RELAY                               *)
(***************************************************************************)
VARIABLES
  now,                \* Date.now(), in ticks
  botInstance,        \* PusherClient.botInstance is set
  notificationCache,  \* module-level Map of pusherClient.js: the marked keys
  timers,             \* pending setTimeout callbacks: [key, due]
  sending,            \* handlers suspended at await sendMessage: [key, markedAt]
  messages,           \* chat messages delivered: sequence of [key, markedAt, at]
  events,             \* number of deposit events handled so far
  unsent,             \* history: keys still marked by a handling that ended
                      \* without a delivered message
  failedKeys,         \* history: keys some handling of which ended without a
                      \* delivered message
  dropped             \* history: duplicates dropped, [key, at]

relayVars ==
  <<botInstance, notificationCache, timers, sending, messages, events, unsent, failedKeys,
    dropped>>

VARIABLES
  redisClient,   \* the module variable redisClient is non-null
  redisUp,       \* the Redis server answers (otherwise a command rejects)
  redisTokens,   \* Redis keys token:<userId>: [tok, exp] or Absent
  TOKENS,        \* the in-process map of config.js
  rateLimits,    \* rateLimits[<<userId, endpoint>>]: [count, resetTime] or Absent
  calls,         \* invocations suspended at an HTTP call
  started,       \* number of invocations started so far
  limitedKeys,   \* history: the <<userId, endpoint>> keys that were ever rate limited
  lastCall,      \* history: the rate-limit verdict of the makeApiRequest just started
  lastGet,       \* history: what getUserToken has just returned
  lastDone,      \* history: the makeApiRequest that has just ended after its request
  lastRefresh    \* history: the proactive refresh of a makeApiRequest just answered

gwVars ==
  <<redisClient, redisUp, redisTokens, TOKENS, rateLimits, calls, started,
    limitedKeys, lastCall, lastGet, lastDone, lastRefresh>>

VARIABLES
  scene,         \* ctx.session.__scenes.current: the wizard scene the chat is in
  cursor,        \* ctx.wizard.cursor: the index of the step that handles the next update
  sessionData,   \* ctx.scene.session.data: [quoteResponse, recipient_type]
  run,           \* history: number of flows entered so far
  updates,       \* number of updates the flows have handled so far
  requests,      \* history: the quote and execution requests sent,
                 \* [endpoint, body, response, stored, run, update]
  threw          \* history: the handler of the latest update ended in an exception

flowVars == <<scene, cursor, sessionData, run, updates, requests, threw>>

VARIABLES
  redisOrgs,         \* the Redis keys org:<userId>: [org, exp] or Absent
  ORGANIZATION_IDS,  \* dependencies.js ORGANIZATION_IDS: userId -> organization id or Null
  pusherClients,     \* telegramBot.js pusherClients: the users with a registered relay instance
  clientOrgs,        \* userId -> the organizationId of the registered instance, or Null
  loggedOut,         \* history: the users whose latest login was followed by a logout
  lastStored         \* history: userId -> the token of the latest storeUserToken (of a
                     \* login or a refresh) while it is unexpired; Absent before
                     \* the first one and after a clearUserToken

sessVars == <<redisOrgs, ORGANIZATION_IDS, pusherClients, clientOrgs, loggedOut, lastStored>>

VARIABLES
  otpSessions,   \* authService.js otpSessions: email -> [sid, createdAt, retries] or Absent
  sidsIssued,    \* the number of session ids the server has issued
  requested,     \* the number of calls of requestEmailOtp so far
  attempts,      \* the number of calls of verifyEmailOtp so far
  forwarded,     \* history: session id -> number of authenticate requests sent for it
  lastOtp        \* the outcome of the call of requestEmailOtp made in the latest step, or Absent

otpVars == <<otpSessions, sidsIssued, requested, attempts, forwarded, lastOtp>>

VARIABLES
  transferJs,    \* which of the copies of commands/transfer.js builds the transfer scene
  lastCancel,    \* the outcome of the /cancel handled in the latest step, or Absent
  lastEnter,     \* history: the scene session at the latest entry into the transfer scene
  lastAmount,    \* output of an update: the amount its step was given, and how the step ended
  lastPlaceholder, \* output of an update: what became of the placeholder it showed
  lastLookup,    \* output of an update: the profile lookup it made, if any
  lastEntry,     \* output of an update: the entry into a flow it made, if any
  confirmOn,     \* the messages of the chat that carry the confirm_batch_transfer button:
                 \* "prompt" (the message of current_message_id), "old" (an earlier one)
  oldButtons,    \* the buttons that earlier messages of the chat still show: "payee" (a
                 \* payee list), "wallet" (the row of source wallets of an amount prompt)
  lastAddress,   \* output of an update: the wallet address its step was given, and how
                 \* the step ended
  summary,       \* what the confirmation summary of the transfer to one recipient shows,
                 \* Absent while the flow has shown none
  lastExec,      \* output of an update: the state in which it issued an execution request
  lastPrompt,    \* output of an update: what its step did when Telegram refused an edit
                 \* of the message of current_message_id
  timeouts,      \* the callbacks given to setTimeout that have not run: [scene, run]
  lastLate       \* output of a setTimeout callback: what it did, and in which state

sceneVars == <<transferJs, lastCancel, lastEnter, lastAmount, lastEntry, lastLookup,
               lastPlaceholder, confirmOn, oldButtons, lastAddress, summary, lastExec,
               lastPrompt, timeouts, lastLate>>

VARIABLES
  inFlight,      \* the handlers suspended at an await: [chat, update]
  arrived,       \* the number of updates Telegram has delivered so far
  ended          \* history: the updates whose handlers have ended, in that order

chatVars == <<inFlight, arrived, ended>>

VARIABLES
  pusherClientJs, \* which of the definitions of class PusherClient the module holds
  connected,      \* this.connected of the relay instance
  channels,       \* the keys of this.channels
  bindings,       \* pusher-js: channel name -> the 'deposit' handlers bound on its channel object
  published       \* history: the transactions whose deposit event the upstream has published

subVars == <<pusherClientJs, connected, channels, bindings, published>>

RelayUsers == {1, 2}
TxHashes == {"0xa", "0xb"}

\* setTimeout(..., 3600000): the retention window, in ticks
RetentionWindow == 2

\* cacheKey = `${this.userId}:${txHash}`
cacheKey(userId, txHash) == <<userId, txHash>>

\* Deposit payloads: whether data has a metadata object, an amount and a
\* network, and its transaction id. With metadata the network and the id
\* (txHash) lie in it; without, they lie at the top level of data (network,
\* transactionId)
DepositPayloads ==
  [metadata : BOOLEAN, amount : BOOLEAN, network : BOOLEAN, txHash : TxHashes \cup {Null}]

\* the validity test of handleDepositEvent: !data.metadata, then
\* !amount || !txHash || !network
validDeposit(data) ==
  data.metadata /\ data.amount /\ data.txHash # Null /\ data.network

RelayInit ==
  /\ botInstance = FALSE
  /\ notificationCache = {}
  /\ timers = {}
  /\ sending = {}
  /\ messages = <<>>
  /\ events = 0
  /\ unsent = {}
  /\ failedKeys = {}
  /\ dropped = {}

\* static setBotInstance(bot)
setBotInstance ==
  /\ botInstance = FALSE
  /\ botInstance' = TRUE
  /\ UNCHANGED <<now, notificationCache, timers, sending, messages, events, unsent,
                 failedKeys, dropped>>
  /\ UNCHANGED <<gwVars, flowVars, sessVars, otpVars, sceneVars, chatVars, subVars>>

\* the timer scheduled when a key is marked
markTimer(key) == [key |-> key, due |-> now + RetentionWindow]

noDuplicateCheck(key) == FALSE

\* notificationCache.has(cacheKey)
isDuplicate(key) == key \in notificationCache

\* handleDepositEvent(data) up to its await of sendMessage
handleDepositEvent(userId, data) ==
  /\ events < MaxEvents
  /\ events' = events + 1
  /\ IF ~validDeposit(data)
       THEN UNCHANGED <<notificationCache, timers, sending, unsent, failedKeys, dropped>>
     ELSE LET key == cacheKey(userId, data.txHash) IN
       IF isDuplicate(key)
         THEN /\ dropped' = dropped \cup {[key |-> key, at |-> now]}
              /\ UNCHANGED <<notificationCache, timers, sending, unsent, failedKeys>>
       ELSE /\ notificationCache' = notificationCache \cup {key}
            /\ UNCHANGED dropped
            /\ timers' = timers \cup {markTimer(key)}
            /\ IF botInstance
                 THEN /\ sending' = sending \cup {[key |-> key, markedAt |-> now]}
                      /\ UNCHANGED <<unsent, failedKeys>>
                 ELSE \* "Cannot send notification": logged, nothing thrown
                      /\ unsent' = unsent \cup {key}
                      /\ failedKeys' = failedKeys \cup {key}
                      /\ UNCHANGED sending
  /\ UNCHANGED <<now, botInstance, messages>>
  /\ UNCHANGED <<gwVars, flowVars, sessVars, otpVars, sceneVars, chatVars, subVars>>

\* sendMessage resolves: the message is in the chat
sendMessageOk(s) ==
  /\ s \in sending
  /\ sending' = sending \ {s}
  /\ messages' = Append(messages, [key |-> s.key, markedAt |-> s.markedAt, at |-> now])
  /\ UNCHANGED <<now, botInstance, notificationCache, timers, events, unsent, failedKeys,
                 dropped>>
  /\ UNCHANGED <<gwVars, flowVars, sessVars, otpVars, sceneVars, chatVars, subVars>>

\* what the catch block does with the key
catchUnmark(key) == notificationCache \ {key}

\* sendMessage rejects: the catch block of handleDepositEvent
sendMessageFail(s) ==
  /\ s \in sending
  /\ sending' = sending \ {s}
  /\ notificationCache' = catchUnmark(s.key)
  /\ unsent' = IF s.key \in notificationCache' THEN unsent \cup {s.key} ELSE unsent
  /\ failedKeys' = failedKeys \cup {s.key}
  /\ UNCHANGED <<now, botInstance, timers, messages, events, dropped>>
  /\ UNCHANGED <<gwVars, flowVars, sessVars, otpVars, sceneVars, chatVars, subVars>>

\* the setTimeout callback: notificationCache.delete(cacheKey)
timerFire(t) ==
  /\ t \in timers
  /\ t.due <= now
  /\ timers' = timers \ {t}
  /\ notificationCache' = notificationCache \ {t.key}
  /\ unsent' = unsent \ {t.key}
  /\ UNCHANGED <<now, botInstance, sending, messages, events, failedKeys, dropped>>
  /\ UNCHANGED <<gwVars, flowVars, sessVars, otpVars, sceneVars, chatVars, subVars>>

\* the stored tokens that are still unexpired one tick from now
unexpiredStored ==
  [u \in DOMAIN lastStored |->
     IF lastStored[u] # Absent /\ now + 1 < lastStored[u].expiresAt
       THEN lastStored[u] ELSE Absent]

\* time passes (one tick is far longer than a sendMessage call); a due timer
\* runs before the clock moves on
RelayTick ==
  /\ now < MaxTime
  /\ sending = {}
  /\ \A t \in timers : t.due > now
  /\ now' = now + 1
  /\ lastStored' = unexpiredStored
  /\ UNCHANGED <<redisOrgs, ORGANIZATION_IDS, pusherClients, clientOrgs, loggedOut>>
  /\ UNCHANGED <<relayVars, gwVars, flowVars, otpVars, sceneVars, chatVars, subVars>>


(***************************************************************************)
(*                 CHANNEL SUBSCRIPTIONS OF THE RELAY                      *)
(***************************************************************************)
\* pusherClient.js holds two definitions of class PusherClient
PusherModules == {"first", "second"}

\* the user and the organization of the relay instance
InstanceUser == 1
InstanceOrg == "1"

\* the most 'deposit' handlers followed on one channel object
MaxBindings == 4

\* `org-${organizationId}` and `private-org-${organizationId}`, as their parts
orgChannel(organizationId) == <<"org-", organizationId>>
privateOrgChannel(organizationId) == <<"private-", "org-", organizationId>>

ChannelNames == {orgChannel(InstanceOrg), privateOrgChannel(InstanceOrg)}

\* channelName.startsWith('private-') ? channelName : `private-${channelName}`
fullChannelName(channelName) ==
  IF Head(channelName) = "private-" THEN channelName ELSE <<"private-">> \o channelName

SubInit ==
  /\ pusherClientJs = "first"
  /\ connected = FALSE
  /\ channels = {}
  /\ bindings = [n \in {} |-> 0]
  /\ published = {}

\* this.pusherClient.unsubscribe(full) of pusher-js: the channel object is
\* dropped with its bindings, or, its subscription being pending, kept and the
\* subscription cancelled
libraryUnsubscribe(b, full, kept) ==
  IF kept THEN b ELSE [n \in DOMAIN b \ {full} |-> b[n]]

\* this.pusherClient.subscribe(full) returns the channel object of the name,
\* made if there is none, and channel.bind('deposit', ...) adds a handler to it
bindDeposit(b, full) ==
  [n \in DOMAIN b \cup {full} |-> IF n = full
                                   THEN (IF full \in DOMAIN b THEN b[full] ELSE 0) + 1
                                   ELSE b[n]]

\* unsubscribe(channelName)
unsubscribe(st, channelName, kept) ==
  LET full == fullChannelName(channelName) IN
  [channels |-> st.channels \ {full},
   bindings |-> libraryUnsubscribe(st.bindings, full, kept)]

\* if (this.channels[fullChannelName]): only the first definition of subscribe
\* has it
unsubscribesFirst(js, st, full) == js = "first" /\ full \in st.channels

\* subscribe(channelName): the instance and the library after the call
subscribe(js, st, channelName, kept) ==
  LET full == fullChannelName(channelName)
      cleared == IF unsubscribesFirst(js, st, full) THEN unsubscribe(st, full, kept) ELSE st
  IN [channels |-> cleared.channels \cup {full},
      bindings |-> bindDeposit(cleared.bindings, full)]

\* the 'deposit' handlers a published event of the organization runs
handlersOf(b) ==
  LET full == privateOrgChannel(InstanceOrg) IN
  IF full \in DOMAIN b THEN b[full] ELSE 0

\* a call of subscribe from outside the class (connectToPusher, the login)
subscribeCall(channelName, kept) ==
  /\ handlersOf(bindings) < MaxBindings
  /\ LET st == subscribe(pusherClientJs, [channels |-> channels, bindings |-> bindings],
                         channelName, kept)
     IN channels' = st.channels /\ bindings' = st.bindings
  /\ UNCHANGED <<pusherClientJs, connected, published>>
  /\ UNCHANGED <<now, relayVars, gwVars, flowVars, sessVars, otpVars, sceneVars, chatVars>>

\* connection.bind('connected', ...): both names are subscribed to, one call
\* after the other
connectedEvent(kept1, kept2) ==
  /\ ~connected
  /\ handlersOf(bindings) + 2 <= MaxBindings
  /\ connected' = TRUE
  /\ LET st1 == subscribe(pusherClientJs, [channels |-> channels, bindings |-> bindings],
                          orgChannel(InstanceOrg), kept1)
         st2 == subscribe(pusherClientJs, st1, privateOrgChannel(InstanceOrg), kept2)
     IN channels' = st2.channels /\ bindings' = st2.bindings
  /\ UNCHANGED <<pusherClientJs, published>>
  /\ UNCHANGED <<now, relayVars, gwVars, flowVars, sessVars, otpVars, sceneVars, chatVars>>

\* connection.bind('disconnected', ...); pusher-js keeps its channel objects
disconnectedEvent ==
  /\ connected
  /\ connected' = FALSE
  /\ UNCHANGED <<pusherClientJs, channels, bindings, published>>
  /\ UNCHANGED <<now, relayVars, gwVars, flowVars, sessVars, otpVars, sceneVars, chatVars>>

\* the sends begun by the handlers of one event, each up to its await
sendsOf(key, handlers) ==
  {[key |-> key, markedAt |-> now, handler |-> h] : h \in handlers}

\* the upstream publishes the deposit event of a transaction, once: pusher-js
\* calls the bound 'deposit' handlers one after the other, and each runs
\* handleDepositEvent up to its await. The first definition looks the key up
\* and marks it before the await, so the handlers after the first return at
\* the look-up; the second definition has no cache and every handler sends
depositPublished(txHash) ==
  /\ connected
  /\ txHash \notin published
  /\ published' = published \cup {txHash}
  /\ LET key == cacheKey(InstanceUser, txHash)
         n == handlersOf(bindings)
         first == pusherClientJs = "first"
         marks == first /\ n >= 1 /\ ~isDuplicate(key)
         senders == IF ~botInstance THEN {}
                    ELSE IF ~first THEN 1..n
                    ELSE IF marks THEN {1} ELSE {}
     IN /\ notificationCache' = IF marks THEN notificationCache \cup {key}
                                ELSE notificationCache
        /\ timers' = IF marks THEN timers \cup {markTimer(key)} ELSE timers
        /\ dropped' = IF first /\ (n >= 2 \/ (n = 1 /\ ~marks))
                        THEN dropped \cup {[key |-> key, at |-> now]} ELSE dropped
        /\ sending' = sending \cup sendsOf(key, senders)
        /\ unsent' = IF n >= 1 /\ ~botInstance /\ (marks \/ ~first)
                       THEN unsent \cup {key} ELSE unsent
        /\ failedKeys' = IF n >= 1 /\ ~botInstance /\ (marks \/ ~first)
                           THEN failedKeys \cup {key} ELSE failedKeys
  /\ UNCHANGED <<now, botInstance, messages, events>>
  /\ UNCHANGED <<pusherClientJs, connected, channels, bindings>>
  /\ UNCHANGED <<gwVars, flowVars, sessVars, otpVars, sceneVars, chatVars>>


(***************************************************************************)
(*                 API GATEWAY AND CREDENTIAL STORE                        *)
(***************************************************************************)
GwUsers == {1}
Endpoints == {"/api/transfers/send", "/api/transfers/offramp"}

\* windowMs: 60 * 1000, in ticks
RateWindow == 2
\* 5 * 60 * 1000: the skew before expiry at which makeApiRequest refreshes, in ticks
RefreshSkew == 2
\* expiresIn of the tokens the server issues, in ticks
TokenLife == 2
\* 86400 s / 24 * 60 * 60 s: the default lifetime, in ticks
DefaultExpiry == 3

\* rateLimitConfig[endpoint] || rateLimitConfig.default (limits 20 and 50, and
\* 5 and 10 of the OTP endpoints, scaled)
rateLimitConfig(endpoint) ==
  IF endpoint = "/api/transfers/send"
    THEN [limit |-> 1, windowMs |-> RateWindow]
    ELSE [limit |-> 2, windowMs |-> RateWindow]

\* the email addresses, numbered apart from the user ids
Emails == {100}
OtpEndpoints == {"/api/auth/email-otp/request", "/api/auth/email-otp/authenticate"}

\* the keys of rateLimits: `${userId}_${endpoint}`, the user id being the
\* email in the calls of authService
RateKeys == (GwUsers \X Endpoints) \cup (Emails \X OtpEndpoints)

limitedAbove(count, limit) == count > limit + 1

\* isLimited = rateLimits[key].count > limit
isLimited(count, limit) == count > limit

\* checkRateLimit(userId, endpoint): the entry after the call and its status
checkRateLimit(userId, endpoint) ==
  LET config == rateLimitConfig(endpoint)
      key == <<userId, endpoint>>
      cur == IF rateLimits[key] = Absent \/ rateLimits[key].resetTime < now
               THEN [count |-> 0, resetTime |-> now + config.windowMs]
               ELSE rateLimits[key]
      entry == [cur EXCEPT !.count = cur.count + 1]
  IN [entry |-> entry,
      limited |-> isLimited(entry.count, config.limit),
      resetTime |-> entry.resetTime]

\* the two backing stores, threaded through the steps of one handler
Stores == [redis |-> redisTokens, mem |-> TOKENS]

\* redisClient.get(`token:${userId}`): a key is gone once its TTL has run out
redisGet(S, userId) ==
  IF S.redis[userId] # Absent /\ S.redis[userId].exp > now
    THEN S.redis[userId].tok
    ELSE Absent

\* storeUserToken(userId, tokenData): the token as stored (expiresAt computed
\* from expiresIn when absent)
normalized(tokenData) ==
  IF tokenData.expiresAt = Undefined /\ tokenData.expiresIn # Undefined
    THEN [tokenData EXCEPT !.expiresAt = now + tokenData.expiresIn]
    ELSE tokenData

\* storeUserToken(userId, tokenData): the stores afterwards
storeUserToken(S, userId, tokenData) ==
  LET tok == normalized(tokenData)
      expirySeconds == IF tok.expiresIn # Undefined THEN tok.expiresIn ELSE DefaultExpiry
  IN IF redisClient /\ redisUp
       THEN [S EXCEPT !.redis[userId] = [tok |-> tok, exp |-> now + expirySeconds]]
       ELSE [S EXCEPT !.mem[userId] = tok]

\* the stores left as they are
keepUserToken(S, userId) == S

\* clearUserToken(userId): the stores afterwards
clearUserToken(S, userId) ==
  IF redisClient /\ redisUp
    THEN [S EXCEPT !.redis[userId] = Absent]
    ELSE [S EXCEPT !.mem[userId] = Absent]

\* new Date(tokenData.expiresAt) < new Date()
isExpired(tok) == tok.expiresAt # Undefined /\ tok.expiresAt < now

\* whether the store getUserToken reads still holds an entry for the user
entryLeft(S, userId) ==
  IF redisClient /\ redisUp THEN redisGet(S, userId) # Absent ELSE S.mem[userId] # Absent

\* getUserToken(userId) up to its first HTTP call:
\*   [kind |-> "return", value, S]  or  [kind |-> "refresh", tok, S]
getUserToken(S, userId) ==
  IF redisClient /\ ~redisUp
    THEN \* catch (err): return TOKENS[userId]
         [kind |-> "return", value |-> S.mem[userId], S |-> S]
  ELSE LET tokenData == IF redisClient THEN redisGet(S, userId) ELSE S.mem[userId] IN
    IF tokenData = Absent
      THEN [kind |-> "return", value |-> Absent, S |-> S]
    ELSE IF isExpired(tokenData)
      THEN IF tokenData.refreshToken
             THEN [kind |-> "refresh", tok |-> tokenData, S |-> S]
             ELSE [kind |-> "return", value |-> Absent,
                   S |-> clearUserToken(S, userId)]
    ELSE [kind |-> "return", value |-> tokenData, S |-> S]

\* the answers of POST /api/auth/refresh
RefreshOutcomes == {"ok", "malformed", "unauthorized", "error"}

\* the token payloads the server issues: {accessToken, refreshToken?, expiresIn?}
ServerTokens ==
  [accessToken : {"jwt"}, refreshToken : BOOLEAN,
   expiresIn : {Undefined, TokenLife}, expiresAt : {Undefined}]

\* refreshToken(userId, refreshToken) after the answer of the refresh call:
\* the value returned and the stores afterwards
refreshToken(S, userId, outcome, payload) ==
  CASE outcome = "ok" ->
         [value |-> normalized(payload), S |-> storeUserToken(S, userId, payload)]
    [] outcome = "unauthorized" ->
         [value |-> Absent, S |-> clearUserToken(S, userId)]
    [] OTHER -> [value |-> Absent, S |-> S]

\* a refresh test that looks at expired tokens only
expiredOnly(tok) == tok.expiresAt # Undefined /\ tok.expiresAt < now

\* the proactive-refresh test of makeApiRequest
nearExpiry(tok) == tok.expiresAt # Undefined /\ tok.expiresAt < now + RefreshSkew

\* a token that has not expired and expires within the skew
withinSkew(tok) ==
  tok.expiresAt # Undefined /\ now <= tok.expiresAt /\ tok.expiresAt < now + RefreshSkew

\* whether the store getUserToken reads holds tok for the user
holds(S, userId, tok) ==
  tok # Absent /\ (IF redisClient /\ redisUp THEN redisGet(S, userId) ELSE S.mem[userId]) = tok

\* the calls of refreshToken that makeApiRequest makes for the token it read
refreshCalls(tokenData) == IF tokenData # Absent /\ nearExpiry(tokenData) THEN 1 ELSE 0

\* the Authorization header of makeApiRequest after its refresh: the access
\* token of newTokenData when the refresh returned one, else the stored one
refreshedHeader(newTokenData) == IF newTokenData # Absent THEN "refreshed" ELSE "stored"

\* makeApiRequest once getUserToken has returned tokenData: either the
\* proactive refresh call is issued, or the request itself
gwAfterToken(c, tokenData) ==
  IF refreshCalls(tokenData) = 1 /\ tokenData.refreshToken
    THEN [c EXCEPT !.pc = "gwRefresh", !.skew = withinSkew(tokenData)]
    ELSE [c EXCEPT !.pc = "sending", !.sent = c.sent + 1]

retryNetwork(outcome) == IF outcome = "network" THEN "retry" ELSE "throw"

\* the catch block of makeApiRequest: every failure is thrown to the caller
targetCatch(outcome) == "throw"

GwInit ==
  /\ redisClient = TRUE
  /\ redisUp = TRUE
  /\ redisTokens = [u \in GwUsers |-> Absent]
  /\ TOKENS = [u \in GwUsers |-> Absent]
  /\ rateLimits = [k \in RateKeys |-> Absent]
  /\ calls = {}
  /\ started = 0
  /\ limitedKeys = {}
  /\ lastCall = Absent
  /\ lastGet = Absent
  /\ lastDone = Absent
  /\ lastRefresh = Absent

\* the state at load when REDIS_URL is not configured: redisClient stays null
GwInitMemory ==
  /\ redisClient = FALSE
  /\ redisUp = TRUE
  /\ redisTokens = [u \in GwUsers |-> Absent]
  /\ TOKENS = [u \in GwUsers |-> Absent]
  /\ rateLimits = [k \in RateKeys |-> Absent]
  /\ calls = {}
  /\ started = 0
  /\ limitedKeys = {}
  /\ lastCall = Absent
  /\ lastGet = Absent
  /\ lastDone = Absent
  /\ lastRefresh = Absent

\* what a return of getUserToken leaves in the history
getReturn(S, userId, value, refreshed, failed) ==
  [user |-> userId, token |-> value, refreshed |-> refreshed, refreshFailed |-> failed,
   entryLeft |-> entryLeft(S, userId)]

\* verifyEmailOtp: the token payload as handed to storeUserToken
processedTokenData(payload) ==
  IF payload.expiresAt = Undefined /\ payload.expiresIn = Undefined
    THEN [payload EXCEPT !.expiresIn = DefaultExpiry, !.expiresAt = now + DefaultExpiry]
  ELSE IF payload.expiresAt = Undefined
    THEN [payload EXCEPT !.expiresAt = now + payload.expiresIn]
  ELSE payload

\* a successful login: verifyEmailOtp stores the token it received
storeToken(userId, payload) ==
  /\ LET S == storeUserToken(Stores, userId, processedTokenData(payload)) IN
       /\ redisTokens' = S.redis
       /\ TOKENS' = S.mem
  /\ loggedOut' = loggedOut \ {userId}
  /\ lastStored' = [lastStored EXCEPT ![userId] = normalized(processedTokenData(payload))]
  /\ lastCall' = Absent /\ lastGet' = Absent /\ lastDone' = Absent /\ lastRefresh' = Absent
  /\ UNCHANGED <<now, redisClient, redisUp, rateLimits, calls, started, limitedKeys>>
  /\ UNCHANGED <<redisOrgs, ORGANIZATION_IDS, pusherClients, clientOrgs>>
  /\ UNCHANGED <<relayVars, flowVars, otpVars, sceneVars, chatVars, subVars>>

\* the two stores of organization ids, threaded through the steps of one handler
Orgs == [redis |-> redisOrgs, mem |-> ORGANIZATION_IDS]

\* storeOrganizationId(userId, organizationId): the Redis key takes the time
\* to live of the token key, or the default when there is no token key
storeOrganizationId(O, S, userId, organizationId) ==
  LET tokenTtl == IF S.redis[userId] # Absent /\ S.redis[userId].exp > now
                    THEN S.redis[userId].exp - now
                    ELSE -2
      expiry == IF tokenTtl > 0 THEN tokenTtl ELSE DefaultExpiry
  IN IF redisClient /\ redisUp
       THEN [O EXCEPT !.redis[userId] = [org |-> organizationId, exp |-> now + expiry]]
       ELSE [O EXCEPT !.mem[userId] = organizationId]

\* getOrganizationId(userId): the organization id, or Null
getOrganizationId(O, userId) ==
  IF redisClient /\ redisUp
    THEN IF O.redis[userId] # Absent /\ O.redis[userId].exp > now
           THEN O.redis[userId].org
           ELSE Null
    ELSE O.mem[userId]

\* the clearing left out: the stores stay as they were
keepOrganizationId(O, userId) == O

\* clearOrganizationId(userId): the stores afterwards
clearOrganizationId(O, userId) ==
  IF redisClient /\ redisUp
    THEN [O EXCEPT !.redis[userId] = Absent]
    ELSE [O EXCEPT !.mem[userId] = Null]

\* logout(userId): the token and the organization id are cleared, the relay
\* instance of the user is disconnected and taken out of the registry
logout(userId) ==
  /\ LET S == clearUserToken(Stores, userId)
         O == clearOrganizationId(Orgs, userId) IN
       /\ redisTokens' = S.redis
       /\ TOKENS' = S.mem
       /\ redisOrgs' = O.redis
       /\ ORGANIZATION_IDS' = O.mem
  /\ pusherClients' = pusherClients \ {userId}
  /\ clientOrgs' = [clientOrgs EXCEPT ![userId] = Null]
  /\ loggedOut' = loggedOut \cup {userId}
  /\ lastStored' = [lastStored EXCEPT ![userId] = Absent]
  /\ lastCall' = Absent /\ lastGet' = Absent /\ lastDone' = Absent /\ lastRefresh' = Absent
  /\ UNCHANGED <<now, redisClient, redisUp, rateLimits, calls, started, limitedKeys>>
  /\ UNCHANGED <<relayVars, flowVars, otpVars, sceneVars, chatVars, subVars>>

\* what getUserProfile gives verifyEmailOtp
ProfileOutcomes == {"org", "otherOrg", "noOrg", "unauthorized", "error"}

\* profile.organizationId, or Null
organizationOf(profile) ==
  CASE profile = "org" -> "org1" [] profile = "otherOrg" -> "org2" [] OTHER -> Null

\* verifyEmailOtp from the storing of the token on: the profile is fetched
\* through the gateway, its organization id is stored and a relay instance is
\* registered for the user unless there is one (if (!pusherClients[userId]))
storeSession(userId, payload, profile) ==
  /\ LET S1 == storeUserToken(Stores, userId, processedTokenData(payload))
         S == IF profile = "unauthorized" THEN clearUserToken(S1, userId) ELSE S1
         O == IF organizationOf(profile) # Null
                THEN storeOrganizationId(Orgs, S, userId, organizationOf(profile))
                ELSE Orgs IN
       /\ redisTokens' = S.redis
       /\ TOKENS' = S.mem
       /\ redisOrgs' = O.redis
       /\ ORGANIZATION_IDS' = O.mem
  /\ pusherClients' = IF organizationOf(profile) # Null
                        THEN pusherClients \cup {userId} ELSE pusherClients
  /\ clientOrgs' = IF organizationOf(profile) # Null /\ userId \notin pusherClients
                     THEN [clientOrgs EXCEPT ![userId] = organizationOf(profile)]
                     ELSE clientOrgs
  /\ loggedOut' = loggedOut \ {userId}
  /\ lastStored' = [lastStored EXCEPT ![userId] =
                     IF profile = "unauthorized" THEN Absent
                     ELSE normalized(processedTokenData(payload))]
  /\ lastCall' = Absent /\ lastGet' = Absent /\ lastDone' = Absent /\ lastRefresh' = Absent
  /\ UNCHANGED <<now, redisClient, redisUp, calls, started, limitedKeys>>
  /\ UNCHANGED <<relayVars, flowVars, sceneVars, chatVars, subVars>>

\* a login of a session: verifyEmailOtp once the server has accepted the OTP
authenticated(userId, payload, profile) ==
  /\ storeSession(userId, payload, profile)
  /\ UNCHANGED <<rateLimits, otpVars, sceneVars, chatVars, subVars>>

\* connectToPusher(userId) where the stored token needs no refresh: the
\* registered instance is disconnected, and a new one is registered with the
\* stored organization id when the user has a token
connectToPusher(userId) ==
  /\ getUserToken(Stores, userId).kind = "return"
  /\ redisTokens' = getUserToken(Stores, userId).S.redis
  /\ TOKENS' = getUserToken(Stores, userId).S.mem
  /\ pusherClients' = IF getUserToken(Stores, userId).value = Absent
                        THEN pusherClients \ {userId}
                        ELSE pusherClients \cup {userId}
  /\ clientOrgs' = [clientOrgs EXCEPT ![userId] =
                      IF getUserToken(Stores, userId).value = Absent
                        THEN Null ELSE getOrganizationId(Orgs, userId)]
  /\ lastCall' = Absent /\ lastGet' = Absent /\ lastDone' = Absent /\ lastRefresh' = Absent
  /\ UNCHANGED <<now, redisClient, redisUp, rateLimits, calls, started, limitedKeys>>
  /\ UNCHANGED <<redisOrgs, ORGANIZATION_IDS, loggedOut, lastStored>>
  /\ UNCHANGED <<relayVars, flowVars, otpVars, sceneVars, chatVars, subVars>>

\* channel.bind('deposit', ...): a registered relay instance hands the event
\* of its channel to handleDepositEvent
depositEvent(userId, data) ==
  /\ userId \in pusherClients
  /\ handleDepositEvent(userId, data)

\* OTP_EXPIRY_SECONDS and OTP_MAX_RETRIES as authService.js destructures them
\* from require('../config'): config.js defines and exports neither
OTP_EXPIRY_SECONDS == Undefined
OTP_MAX_RETRIES == Undefined

\* session.createdAt + (OTP_EXPIRY_SECONDS * 1000) > now; with undefined the
\* sum is NaN and the comparison is false
withinWindow(session) ==
  OTP_EXPIRY_SECONDS # Undefined /\ session.createdAt + OTP_EXPIRY_SECONDS > now

\* session.retries >= OTP_MAX_RETRIES; a comparison with undefined is false
capReached(session) ==
  OTP_MAX_RETRIES # Undefined /\ session.retries >= OTP_MAX_RETRIES

\* what the server answers to an OTP request
OtpRequestOutcomes == {"ok", "nosid", "error"}

\* what a call of requestEmailOtp leaves in lastOtp
otpReturn(email, sid, wasSent) ==
  [email |-> email, prev |-> otpSessions[email], sid |-> sid, sent |-> wasSent]

\* requestEmailOtp(email)
requestEmailOtp(email, outcome) ==
  /\ requested < MaxOtp
  /\ requested' = requested + 1
  /\ IF otpSessions[email] # Absent /\ withinWindow(otpSessions[email])
       THEN \* the session is reused
            /\ lastOtp' = otpReturn(email, otpSessions[email].sid, FALSE)
            /\ UNCHANGED <<otpSessions, sidsIssued, rateLimits>>
       ELSE LET r == checkRateLimit(email, "/api/auth/email-otp/request") IN
            /\ rateLimits' =
                 [rateLimits EXCEPT ![<<email, "/api/auth/email-otp/request">>] = r.entry]
            /\ IF r.limited
                 THEN /\ lastOtp' = otpReturn(email, 0, FALSE)
                      /\ UNCHANGED <<otpSessions, sidsIssued>>
               ELSE IF outcome = "ok"
                 THEN /\ sidsIssued' = sidsIssued + 1
                      /\ otpSessions' = [otpSessions EXCEPT ![email] =
                           [sid |-> sidsIssued + 1, createdAt |-> now, retries |-> 0]]
                      /\ lastOtp' = otpReturn(email, sidsIssued + 1, TRUE)
               ELSE /\ lastOtp' = otpReturn(email, 0, TRUE)
                    /\ UNCHANGED <<otpSessions, sidsIssued>>
  /\ UNCHANGED <<attempts, forwarded>>
  /\ UNCHANGED <<now, redisClient, redisUp, redisTokens, TOKENS, calls, started, limitedKeys,
                 lastCall, lastGet, lastDone, lastRefresh>>
  /\ UNCHANGED <<relayVars, flowVars, sessVars, sceneVars, chatVars, subVars>>

\* what the server answers to an authenticate request
OtpVerifyOutcomes == {"ok", "invalid"}

\* the token of a login through the OTP flow
OtpTokens == {p \in ServerTokens : ~p.refreshToken /\ p.expiresIn = Undefined}

\* verifyEmailOtp(email, otp, userId, sid): outcome is the answer of the
\* server should the request reach it ("ok" for the correct OTP)
verifyEmailOtp(email, sid, userId, outcome, payload) ==
  /\ attempts < MaxAttempts
  /\ attempts' = attempts + 1
  /\ lastOtp' = Absent
  /\ UNCHANGED <<sidsIssued, requested>>
  /\ LET session == otpSessions[email]
         failure == /\ UNCHANGED <<redisTokens, TOKENS, lastCall, lastGet, lastDone,
                                   lastRefresh>>
                    /\ UNCHANGED <<now, redisClient, redisUp, calls, started, limitedKeys>>
                    /\ UNCHANGED <<relayVars, flowVars, sessVars, sceneVars, chatVars, subVars>>
     IN IF session = Absent \/ session.sid # sid
          THEN /\ UNCHANGED <<otpSessions, forwarded, rateLimits>>
               /\ failure
        ELSE IF capReached(session)
          THEN /\ otpSessions' = [otpSessions EXCEPT ![email] = Absent]
               /\ UNCHANGED <<forwarded, rateLimits>>
               /\ failure
        ELSE LET r == checkRateLimit(email, "/api/auth/email-otp/authenticate")
                 counted == [session EXCEPT !.retries = session.retries + 1] IN
             /\ rateLimits' =
                  [rateLimits EXCEPT ![<<email, "/api/auth/email-otp/authenticate">>] = r.entry]
             /\ IF r.limited
                  THEN /\ otpSessions' = [otpSessions EXCEPT ![email] = counted]
                       /\ UNCHANGED forwarded
                       /\ failure
                ELSE /\ forwarded' = [forwarded EXCEPT ![sid] = forwarded[sid] + 1]
                     /\ IF outcome = "ok"
                          THEN /\ otpSessions' = [otpSessions EXCEPT ![email] = Absent]
                               /\ storeSession(userId, payload, "org")
                          ELSE /\ otpSessions' = [otpSessions EXCEPT ![email] = counted]
                               /\ failure

\* time passes between two calls of the authentication service
OtpTick ==
  /\ now < MaxTime
  /\ now' = now + 1
  /\ lastOtp' = Absent
  /\ lastStored' = unexpiredStored
  /\ UNCHANGED <<redisOrgs, ORGANIZATION_IDS, pusherClients, clientOrgs, loggedOut>>
  /\ UNCHANGED <<otpSessions, sidsIssued, requested, attempts, forwarded>>
  /\ UNCHANGED <<relayVars, gwVars, flowVars, sceneVars, chatVars, subVars>>

OtpInit ==
  /\ otpSessions = [e \in Emails |-> Absent]
  /\ sidsIssued = 0
  /\ requested = 0
  /\ attempts = 0
  /\ forwarded = [s \in 1..MaxOtp |-> 0]
  /\ lastOtp = Absent

\* the authentication service: OTP requests and verifications
OtpNext ==
  \/ \E e \in Emails, o \in OtpRequestOutcomes : requestEmailOtp(e, o)
  \/ \E e \in Emails, sid \in 1..MaxOtp, u \in GwUsers, o \in OtpVerifyOutcomes,
        p \in OtpTokens : verifyEmailOtp(e, sid, u, o, p)
  \/ OtpTick

SessInit ==
  /\ redisOrgs = [u \in GwUsers |-> Absent]
  /\ ORGANIZATION_IDS = [u \in GwUsers |-> Null]
  /\ pusherClients = {}
  /\ clientOrgs = [u \in GwUsers |-> Null]
  /\ loggedOut = {}
  /\ lastStored = [u \in GwUsers |-> Absent]

newCall(op, userId, endpoint) ==
  [id |-> started + 1, op |-> op, user |-> userId, endpoint |-> endpoint,
   pc |-> "start", sent |-> 0, skew |-> FALSE]

\* getUserToken(userId) called on its own (by a command or a scene step)
startGetUserToken(userId) ==
  /\ started < MaxCalls
  /\ started' = started + 1
  /\ LET r == getUserToken(Stores, userId) IN
       /\ redisTokens' = r.S.redis
       /\ TOKENS' = r.S.mem
       /\ IF r.kind = "return"
            THEN /\ lastGet' = getReturn(r.S, userId, r.value, FALSE, FALSE)
                 /\ UNCHANGED calls
            ELSE /\ calls' = calls \cup
                      {[newCall("get", userId, "-") EXCEPT !.pc = "getRefresh"]}
                 /\ lastGet' = Absent
  /\ lastCall' = Absent /\ lastDone' = Absent /\ lastRefresh' = Absent
  /\ UNCHANGED <<now, redisClient, redisUp, rateLimits, limitedKeys>>
  /\ UNCHANGED <<relayVars, flowVars, sessVars, otpVars, sceneVars, chatVars, subVars>>

\* makeApiRequest(method, endpoint, userId, ...) up to its first HTTP call
startMakeApiRequest(userId, endpoint) ==
  /\ started < MaxCalls
  /\ started' = started + 1
  /\ LET rl == checkRateLimit(userId, endpoint) IN
       /\ rateLimits' = [rateLimits EXCEPT ![<<userId, endpoint>>] = rl.entry]
       /\ lastCall' =
            LET r == getUserToken(Stores, userId)
                read == ~rl.limited /\ r.kind = "return" /\ r.value # Absent
            IN [id |-> started + 1, user |-> userId, endpoint |-> endpoint,
                limited |-> rl.limited, resetIn |-> rl.resetTime - now,
                skew |-> (read /\ withinSkew(r.value)),
                refreshCalls |-> IF read THEN refreshCalls(r.value) ELSE 0,
                sent |-> IF ~rl.limited /\ r.kind = "return"
                           THEN gwAfterToken(newCall("gw", userId, endpoint), r.value).sent
                           ELSE 0]
       /\ limitedKeys' = IF rl.limited THEN limitedKeys \cup {<<userId, endpoint>>}
                                      ELSE limitedKeys
       /\ IF rl.limited
            THEN \* throw new Error(`Rate limit exceeded. ...`)
                 /\ lastGet' = Absent
                 /\ UNCHANGED <<redisTokens, TOKENS, calls>>
            ELSE LET r == getUserToken(Stores, userId)
                     c == newCall("gw", userId, endpoint)
                 IN /\ redisTokens' = r.S.redis
                    /\ TOKENS' = r.S.mem
                    /\ IF r.kind = "return"
                         THEN /\ lastGet' = getReturn(r.S, userId, r.value, FALSE, FALSE)
                              /\ calls' = calls \cup {gwAfterToken(c, r.value)}
                         ELSE /\ calls' = calls \cup
                                   {[c EXCEPT !.pc = "getRefresh"]}
                              /\ lastGet' = Absent
  /\ lastDone' = Absent /\ lastRefresh' = Absent
  /\ UNCHANGED <<now, redisClient, redisUp>>
  /\ UNCHANGED <<relayVars, flowVars, sessVars, otpVars, sceneVars, chatVars, subVars>>

\* the refresh call of refreshToken is answered
refreshResponse(c, outcome, payload) ==
  /\ c \in calls
  /\ c.pc \in {"getRefresh", "gwRefresh"}
  /\ LET r == refreshToken(Stores, c.user, outcome, payload) IN
       /\ redisTokens' = r.S.redis
       /\ TOKENS' = r.S.mem
       /\ IF c.pc = "getRefresh"
            THEN \* getUserToken: return newTokenData
                 /\ lastGet' = getReturn(r.S, c.user, r.value, TRUE, outcome # "ok")
                 /\ calls' = IF c.op = "get"
                               THEN calls \ {c}
                               ELSE (calls \ {c}) \cup {gwAfterToken(c, r.value)}
                 /\ lastRefresh' = Absent
            ELSE \* makeApiRequest: the header is updated when a token came back
                 /\ calls' = (calls \ {c}) \cup
                      {[c EXCEPT !.pc = "sending", !.sent = c.sent + 1, !.skew = FALSE]}
                 /\ lastGet' = Absent
                 /\ lastRefresh' = [id |-> c.id, user |-> c.user, skew |-> c.skew,
                                    ok |-> (r.value # Absent),
                                    header |-> refreshedHeader(r.value),
                                    held |-> holds(r.S, c.user, r.value),
                                    sent |-> c.sent + 1]
       /\ lastStored' = CASE outcome = "ok" ->
                                [lastStored EXCEPT ![c.user] = normalized(payload)]
                           [] outcome = "unauthorized" ->
                                [lastStored EXCEPT ![c.user] = Absent]
                           [] OTHER -> lastStored
  /\ lastCall' = Absent /\ lastDone' = Absent
  /\ UNCHANGED <<redisOrgs, ORGANIZATION_IDS, pusherClients, clientOrgs, loggedOut>>
  /\ UNCHANGED <<now, redisClient, redisUp, rateLimits, started, limitedKeys>>
  /\ UNCHANGED <<relayVars, flowVars, otpVars, sceneVars, chatVars, subVars>>

\* the answers of the remote API to the request itself
TargetOutcomes == {"ok", "unauthorized", "http_error", "network"}

\* axios(config) settles: makeApiRequest returns response.data or throws
targetResponse(c, outcome) ==
  /\ c \in calls
  /\ c.pc = "sending"
  /\ IF outcome # "ok" /\ targetCatch(outcome) = "retry"
       THEN /\ calls' = (calls \ {c}) \cup {[c EXCEPT !.sent = c.sent + 1]}
            /\ lastDone' = Absent
            /\ UNCHANGED <<redisTokens, TOKENS, lastStored>>
       ELSE /\ calls' = calls \ {c}
            /\ lastDone' = [id |-> c.id, user |-> c.user, endpoint |-> c.endpoint,
                            outcome |-> outcome, sent |-> c.sent,
                            thrown |-> (outcome # "ok"),
                            hadToken |-> entryLeft(Stores, c.user)]
            /\ LET S == IF outcome = "unauthorized"
                          THEN clearUserToken(Stores, c.user) ELSE Stores
               IN /\ redisTokens' = S.redis
                  /\ TOKENS' = S.mem
            /\ lastStored' = IF outcome = "unauthorized"
                                THEN [lastStored EXCEPT ![c.user] = Absent]
                                ELSE lastStored
  /\ lastCall' = Absent /\ lastGet' = Absent /\ lastRefresh' = Absent
  /\ UNCHANGED <<redisOrgs, ORGANIZATION_IDS, pusherClients, clientOrgs, loggedOut>>
  /\ UNCHANGED <<now, redisClient, redisUp, rateLimits, started, limitedKeys>>
  /\ UNCHANGED <<relayVars, flowVars, otpVars, sceneVars, chatVars, subVars>>

\* the Redis server stops answering
redisGoesDown ==
  /\ redisClient /\ redisUp
  /\ redisUp' = FALSE
  /\ lastCall' = Absent /\ lastGet' = Absent /\ lastDone' = Absent /\ lastRefresh' = Absent
  /\ UNCHANGED <<now, redisClient, redisTokens, TOKENS, rateLimits, calls, started,
                 limitedKeys>>
  /\ UNCHANGED <<relayVars, flowVars, sessVars, otpVars, sceneVars, chatVars, subVars>>

\* the Redis server answers again
redisComesBack ==
  /\ redisClient /\ ~redisUp
  /\ redisUp' = TRUE
  /\ lastCall' = Absent /\ lastGet' = Absent /\ lastDone' = Absent /\ lastRefresh' = Absent
  /\ UNCHANGED <<now, redisClient, redisTokens, TOKENS, rateLimits, calls, started,
                 limitedKeys>>
  /\ UNCHANGED <<relayVars, flowVars, sessVars, otpVars, sceneVars, chatVars, subVars>>

\* redisClient.on('error'): redisClient = null
redisError ==
  /\ redisClient /\ ~redisUp
  /\ redisClient' = FALSE
  /\ lastCall' = Absent /\ lastGet' = Absent /\ lastDone' = Absent /\ lastRefresh' = Absent
  /\ UNCHANGED <<now, redisUp, redisTokens, TOKENS, rateLimits, calls, started,
                 limitedKeys>>
  /\ UNCHANGED <<relayVars, flowVars, sessVars, otpVars, sceneVars, chatVars, subVars>>

\* time passes; an HTTP call is answered within the tick in which it was made
GwTick ==
  /\ now < MaxTime
  /\ calls = {}
  /\ now' = now + 1
  /\ lastCall' = Absent /\ lastGet' = Absent /\ lastDone' = Absent /\ lastRefresh' = Absent
  /\ lastStored' = unexpiredStored
  /\ UNCHANGED <<redisOrgs, ORGANIZATION_IDS, pusherClients, clientOrgs, loggedOut>>
  /\ UNCHANGED <<redisClient, redisUp, redisTokens, TOKENS, rateLimits, calls, started,
                 limitedKeys>>
  /\ UNCHANGED <<relayVars, flowVars, otpVars, sceneVars, chatVars, subVars>>

\* the API gateway: logins, API calls and their answers
GwNext ==
  \/ \E u \in GwUsers, p \in ServerTokens : storeToken(u, p)
  \/ \E u \in GwUsers, e \in Endpoints : startMakeApiRequest(u, e)
  \/ \E c \in calls, o \in RefreshOutcomes, p \in ServerTokens : refreshResponse(c, o, p)
  \/ \E c \in calls, o \in TargetOutcomes : targetResponse(c, o)
  \/ GwTick

\* the credential store: logins, logouts, token reads, and Redis failing
TokenNext ==
  \/ \E u \in GwUsers, p \in ServerTokens : storeToken(u, p)
  \/ \E u \in GwUsers : logout(u)
  \/ \E u \in GwUsers : startGetUserToken(u)
  \/ \E c \in calls, o \in RefreshOutcomes, p \in ServerTokens : refreshResponse(c, o, p)
  \/ redisGoesDown
  \/ redisComesBack
  \/ redisError
  \/ GwTick

(***************************************************************************)
(* The conversation flows: the withdrawal scene and the confirmation of    *)
(* the transfer scene.  A handler runs from its update to its end in one   *)
(* step; the answers of the remote API and of Telegram are its inputs.     *)
(***************************************************************************)
\* a quote response without fields, and the body of a request that has none
NoQuote == [quotePayload |-> Null, quoteSignature |-> Null]

\* the answers of the quote endpoints: {quotePayload, quoteSignature}, either
\* of which may be missing; "bad" is a payload that is not JSON
QuoteResponses == [quotePayload : {Null, "q1", "q2", "bad"}, quoteSignature : {Null, "s1"}]

\* JSON.parse(quotePayload) returns
isJson(quotePayload) == quotePayload \in {"q1", "q2"}

\* how a call of makeApiRequest ends: it returns the response, it throws after
\* the request was sent, or it throws before any request (rate limit)
ApiOutcomes == {"ok", "error", "limited"}

\* the Telegram calls a handler can make: answerCbQuery, its first message or
\* edit, the edit that shows the result, the trailing reply, the edit or reply
\* of the catch block; the calls in the set bad of a handler throw
TgCalls == {"ack", "notice", "result", "extra", "failure"}

ExecEndpoints ==
  {"/api/transfers/send", "/api/transfers/wallet-withdraw", "/api/transfers/send-batch",
   "/api/transfers/offramp"}

\* the amounts a user types
AmountTexts == {"abc", "0", "-1", "Infinity", "0.000000001", "0.05", "0.5", "2"}

\* JavaScript numbers: NaN, Infinity, or a finite value v in units of 10^-9
NaN == [kind |-> "NaN", v |-> 0]
Infinity == [kind |-> "Infinity", v |-> 0]
num(v) == [kind |-> "number", v |-> v]
NoAmount == [kind |-> "undefined", v |-> 0]

\* parseFloat(amountText)
parseFloat(text) ==
  CASE text = "abc" -> NaN
    [] text = "Infinity" -> Infinity
    [] text = "0" -> num(0)
    [] text = "-1" -> num(-1000000000)
    [] text = "0.000000001" -> num(1)
    [] text = "0.05" -> num(50000000)
    [] text = "0.5" -> num(500000000)
    [] OTHER -> num(2000000000)

\* isNaN(amount)
isNaN(amount) == amount.kind = "NaN"

\* amount <= 0: false of NaN and of Infinity
notPositive(amount) == amount.kind = "number" /\ amount.v <= 0

\* Math.floor(amount * 1e8): the integer of the API, NaN or Infinity
floorE8(amount) == IF amount.kind = "number" THEN num(amount.v \div 10) ELSE amount

\* the amount of a request body, with the number it was computed from
amountBody(amount) == [amount |-> floorE8(amount), entered |-> amount]

\* the data of a scene session: the stored quote, the recipient type, the
\* amount, and of a batch the selected payees, the amounts given so far
\* ([id, amount]), waiting_for_batch_amount and waiting_for_batch_same_amount;
\* of a transfer to one recipient the wallet address, the payee and the
\* source wallet, and adding_payee while the nickname of a new payee is awaited
noData ==
  [quoteResponse |-> NoQuote, recipient_type |-> "none", amount |-> NoAmount,
   selected |-> <<>>, amounts |-> <<>>, waiting |-> FALSE, same |-> FALSE,
   wallet_address |-> Null, selected_payee |-> Null, selected_wallet |-> Null,
   adding_payee |-> FALSE]

FlowInit ==
  /\ scene = "none"
  /\ cursor = 0
  /\ sessionData = noData
  /\ run = 0
  /\ updates = 0
  /\ requests = <<>>
  /\ threw = FALSE

\* the data of a scene session that was emptied: the scene session is reset
\* when a scene is left, and step 1 of a scene sets ctx.scene.session.data = {}
staleSession(d) == d

freshSession(d) == noData

\* the buttons of the chat once a flow has sent the message of a new prompt:
\* the earlier messages keep their keyboards
aged(buttons) == IF buttons = {} THEN {} ELSE {"old"}

\* a request as it is kept in the history
sent(endpoint, body, response) ==
  [endpoint |-> endpoint, body |-> body, response |-> response,
   stored |-> sessionData.quoteResponse, run |-> run, update |-> updates + 1]

\* the end of a handler of scene sc at step cur in flow r with session sessionData d:
\* "leave" (ctx.scene.leave()), "next" (ctx.wizard.next()), "stay" (plain
\* return) or "throw" (the exception leaves the handler: the session keeps
\* the scene, unless the process exits on the exception and loses it)
endStep(sc, cur, r, d, how, reqs, crash) ==
  /\ updates < MaxUpdates
  /\ updates' = updates + 1
  /\ requests' = requests \o reqs
  /\ threw' = (how = "throw")
  /\ run' = r
  /\ IF how = "leave" \/ (how = "throw" /\ crash)
       THEN scene' = "none" /\ cursor' = 0 /\ sessionData' = freshSession(d)
       ELSE /\ scene' = sc
            /\ cursor' = IF how = "next" THEN cur + 1 ELSE cur
            /\ sessionData' = d
  /\ UNCHANGED now
  /\ UNCHANGED <<relayVars, gwVars, sessVars, otpVars, chatVars, subVars>>

\* a handler that calls no setTimeout
noTimeout == lastLate' = Absent /\ UNCHANGED timeouts

\* the summary after a handler that shows none: the chat keeps it while the
\* flow goes on
keptSummary(how, crash) ==
  IF how = "leave" \/ (how = "throw" /\ crash) THEN Absent ELSE summary

\* the end of a handler that is given no wallet address, shows no payee list
\* and no summary, and issues no request of a transfer to one recipient
endUpdate(sc, cur, r, d, how, reqs, crash) ==
  /\ endStep(sc, cur, r, d, how, reqs, crash)
  /\ lastAddress' = Absent
  /\ lastExec' = Absent /\ lastPrompt' = Absent
  /\ summary' = keptSummary(how, crash)
  /\ UNCHANGED oldButtons /\ noTimeout

\* the end of a handler that is not the handling of /cancel
endHandler(sc, cur, r, d, how, reqs, crash) ==
  /\ endUpdate(sc, cur, r, d, how, reqs, crash)
  /\ lastAmount' = Absent /\ lastEntry' = Absent /\ lastLookup' = Absent /\ lastPlaceholder' = Absent
  /\ UNCHANGED <<transferJs, lastCancel, lastEnter, confirmOn>>

\* the catch block that ends a confirmation: the error is shown, then the
\* scene is left
catchThenLeave(bad) == IF "failure" \in bad THEN "throw" ELSE "leave"

\* the login test never sends a user away
noLoginCheck(loggedIn) == FALSE

\* if (!token), token being what getUserToken returned (loggedIn: a token)
needsLogin(loggedIn) == ~loggedIn

\* what an entry into a flow leaves in lastEntry
entryMade(sc, loggedIn, how, apiCalls, bad) ==
  [scene |-> sc, loggedIn |-> loggedIn, how |-> how, apiCalls |-> apiCalls,
   prompted |-> (~loggedIn /\ "notice" \notin bad), delivered |-> (bad = {})]

\* /withdrawal: the scene is entered and step 1 runs
\* what a step leaves of the loading message it has shown: the text the
\* message ends with (the result, an error text, or still the placeholder)
\* and whether the step ended with an error text in the chat, in the
\* message itself or in a new one (it did unless it went on or threw)
placeholderLeft(shown, final, how) ==
  IF shown
    THEN [final |-> final, failed |-> (final # "result"),
          told |-> (final # "result" /\ how # "throw")]
    ELSE Absent

\* balOk: whether the balances could be read; getFormattedWalletBalances
\* catches its errors and returns a text that says so, which the step shows
\* like the balances
withdrawalStep1(loggedIn, balOk, bad, crash) ==
  /\ scene = "none"
  /\ LET how == IF needsLogin(loggedIn)
                  THEN IF "notice" \in bad THEN "throw" ELSE "leave"
                ELSE IF "notice" \in bad \/ "result" \in bad
                  THEN catchThenLeave(bad)
                ELSE "next"
         apiCalls == IF needsLogin(loggedIn) \/ "notice" \in bad
                       THEN {} ELSE {"/api/wallets/balances"}
     IN /\ endUpdate("withdrawal-scene", 0, run + 1, noData, how, <<>>, crash)
        /\ lastLookup' = Absent
        /\ lastPlaceholder' =
             placeholderLeft(~needsLogin(loggedIn) /\ "notice" \notin bad,
                             IF "result" \notin bad THEN "result" ELSE "placeholder",
                             how)
        /\ lastEntry' = entryMade("withdrawal-scene", loggedIn, how, apiCalls, bad)
  /\ lastAmount' = Absent
  /\ UNCHANGED <<transferJs, lastCancel, lastEnter, confirmOn>>

\* what a step that was given an amount leaves in lastAmount
amountInput(flow, text, how, reprompted, bad, quotes) ==
  [flow |-> flow, text |-> text, cursor |-> cursor, how |-> how,
   reprompted |-> reprompted, delivered |-> (bad = {}), quotes |-> quotes,
   uniform |-> sessionData.same]

\* step 2 of the withdrawal scene: the amount, then the provisional quote of
\* POST /api/quotes/public-offramp is stored and shown; the request is kept
\* in lastAmount
\* how GET /api/auth/me can end: ApiOutcomes, or a request answered 401
LookupOutcomes == ApiOutcomes \cup {"unauthorized"}

\* the profile lookup of step 2 has a try block of its own: whatever
\* makeApiRequest throws is caught there and logged, the country code is set
\* to 'vnm', and the step goes on to the quote. What is left of the lookup:
\* its outcome, the token cleared by makeApiRequest at a 401, and the rest of
\* the step (how it ended, the quote requests it sent)
profileLookup(me, how, quotes, bad) ==
  [endpoint |-> "/api/auth/me", outcome |-> me, cleared |-> (me = "unauthorized"),
   caught |-> (me # "ok"), how |-> how, quotes |-> Len(quotes),
   delivered |-> (bad = {})]

withdrawalStep2(kind, text, me, po, q, bad, crash) ==
  /\ scene = "withdrawal-scene" /\ cursor = 1
  /\ LET amount == parseFloat(text)
         amountOk == ~notPositive(amount)
         asked == kind = "text" /\ "notice" \notin bad /\ amountOk
         quoted == asked /\ po = "ok"
         quotes == IF asked /\ po # "limited"
                     THEN <<sent("/api/quotes/public-offramp", amountBody(amount), NoQuote)>>
                     ELSE <<>>
         d == IF quoted THEN [sessionData EXCEPT !.quoteResponse = q] ELSE sessionData
         shown == quoted /\ (q.quotePayload = Null \/ isJson(q.quotePayload))
                         /\ "result" \notin bad
         how == CASE kind = "callback" -> "throw"
                  [] kind = "command" -> IF "notice" \in bad THEN "throw" ELSE "leave"
                  [] OTHER ->
                       IF "notice" \in bad THEN "throw"
                       ELSE IF ~amountOk
                         THEN IF "result" \in bad THEN catchThenLeave(bad) ELSE "stay"
                       ELSE IF shown THEN "next"
                       ELSE catchThenLeave(bad)
     IN /\ endUpdate(scene, cursor, run, d, how, <<>>, crash)
        /\ lastAmount' = IF kind = "text" /\ "notice" \notin bad
                           THEN amountInput("withdrawal", text, how,
                                            ~amountOk /\ "result" \notin bad, bad, quotes)
                           ELSE Absent
        /\ lastLookup' = IF asked THEN profileLookup(me, how, quotes, bad) ELSE Absent
        /\ lastPlaceholder' =
             placeholderLeft(kind = "text" /\ "notice" \notin bad,
                             CASE how = "next" -> "result"
                               [] how = "throw" -> "placeholder"
                               [] OTHER -> "error",
                             how)
        /\ lastEntry' = Absent
  /\ UNCHANGED <<transferJs, lastCancel, lastEnter, confirmOn>>

\* withdrawalPayload = {quotePayload: officialQuotePayload, quoteSignature: ...}
storedQuotePayload(official, stored) ==
  [quotePayload |-> stored.quotePayload, quoteSignature |-> stored.quoteSignature]

withdrawalPayload(official, stored) ==
  [quotePayload |-> official.quotePayload, quoteSignature |-> official.quoteSignature]

\* step 3 of the withdrawal scene: the confirmation
withdrawalStep3(kind, qo, q, xo, xid, bad, crash) ==
  /\ scene = "withdrawal-scene" /\ cursor = 2
  /\ LET confirmed == kind = "confirm_withdrawal" /\ "ack" \notin bad /\ "notice" \notin bad
         quoteOk == qo = "ok" /\ q.quotePayload # Null /\ q.quoteSignature # Null
         quoteReqs ==
           IF confirmed /\ qo # "limited"
             THEN <<sent("/api/quotes/offramp", NoQuote, IF qo = "ok" THEN q ELSE NoQuote)>>
             ELSE <<>>
         execReqs ==
           IF confirmed /\ quoteOk /\ xo # "limited"
             THEN <<sent("/api/transfers/offramp",
                         withdrawalPayload(q, sessionData.quoteResponse), NoQuote)>>
             ELSE <<>>
         success == quoteOk /\ xo = "ok" /\ xid /\ isJson(q.quotePayload)
                           /\ "result" \notin bad
         how == CASE kind = "text" -> IF "notice" \in bad THEN "throw" ELSE "stay"
                  [] kind # "text" /\ "ack" \in bad -> "throw"
                  [] kind = "cancel_withdrawal" /\ "ack" \notin bad ->
                       IF "result" \in bad THEN "throw" ELSE "leave"
                  [] kind = "confirm_withdrawal" /\ "ack" \notin bad ->
                       IF "notice" \in bad THEN "throw"
                       ELSE IF success THEN "leave"
                       ELSE catchThenLeave(bad)
                  [] OTHER -> IF "notice" \in bad THEN "throw" ELSE "leave"
     IN /\ endUpdate(scene, cursor, run, sessionData, how, quoteReqs \o execReqs, crash)
        /\ lastPlaceholder' =
             placeholderLeft(confirmed,
                             IF success THEN "result"
                             ELSE IF "failure" \in bad THEN "placeholder" ELSE "error",
                             how)
  /\ lastAmount' = Absent /\ lastEntry' = Absent /\ lastLookup' = Absent
  /\ UNCHANGED <<transferJs, lastCancel, lastEnter, confirmOn>>

\* withdrawalScene.command('cancel')
withdrawalCancel(bad, crash) ==
  /\ scene = "withdrawal-scene"
  /\ endHandler(scene, cursor, run, sessionData,
                IF "notice" \in bad THEN "throw" ELSE "leave", <<>>, crash)

\* the texts given as a wallet address
AddressTexts ==
  {"abc", "0x12", "0x52908400098527886E0F7030069857D2E4169EE7",
   "zz52908400098527886E0F7030069857D2E4169EE7"}

\* text.startsWith('0x')
startsWith0x(text) == text \in {"0x12", "0x52908400098527886E0F7030069857D2E4169EE7"}

\* text.length
length(text) == IF text = "abc" THEN 3 ELSE IF text = "0x12" THEN 4 ELSE 42

\* !text.startsWith('0x') || text.length < 42
badAddress(text) == ~startsWith0x(text) \/ length(text) < 42

\* the data of a transfer to one recipient once step 3 has taken the
\* recipient in the ordinary way: the payee of the list that was pressed, or
\* the address that passed the test, and the default source wallet
recipientTaken(d) ==
  IF d.recipient_type = "email"
    THEN [d EXCEPT !.selected_payee = "p1", !.selected_wallet = "w1"]
  ELSE IF d.recipient_type = "wallet"
    THEN [d EXCEPT !.wallet_address = "0x52908400098527886E0F7030069857D2E4169EE7",
                   !.selected_wallet = "w1"]
  ELSE d

\* what showTransferConfirmation writes into the summary: the recipient, the
\* source wallet and the amount
summaryOf(d) ==
  [recipient |-> IF d.recipient_type = "email" THEN d.selected_payee ELSE d.wallet_address,
   walletId |-> d.selected_wallet, amount |-> d.amount]

\* /send and steps 1 to 4 of the transfer scene, which collect the recipient
\* and the amount and show the confirmation (of a batch: at step 3)
transferPrepare(kind) ==
  /\ scene = "none"
  /\ summary' = (IF kind = "batch" THEN Absent
                 ELSE summaryOf(recipientTaken([noData EXCEPT !.recipient_type = kind,
                                                              !.amount = parseFloat("2")])))
  /\ lastAddress' = Absent /\ lastExec' = Absent /\ lastPrompt' = Absent /\ UNCHANGED oldButtons /\ noTimeout
  /\ endStep("transfer-scene", IF kind = "batch" THEN 2 ELSE 4, run + 1,
               IF kind = "batch"
                 THEN [noData EXCEPT !.recipient_type = kind, !.selected = <<1>>,
                         !.amounts = <<[id |-> 1, amount |-> parseFloat("2")]>>]
                 ELSE recipientTaken([noData EXCEPT !.recipient_type = kind,
                                                    !.amount = parseFloat("2")]),
               "stay", <<>>, FALSE)
  /\ lastAmount' = Absent /\ lastEntry' = Absent /\ lastLookup' = Absent /\ lastPlaceholder' = Absent
  /\ confirmOn' = IF kind = "batch" THEN aged(confirmOn) \cup {"prompt"} ELSE aged(confirmOn)
  /\ UNCHANGED <<transferJs, lastCancel, lastEnter>>

\* /send and steps 1 and 2 of the transfer scene, which take the method kind
\* and ask for the recipient: the payee list or the prompt for the address;
\* old: the buttons of the messages that earlier flows left in the chat when
\* /cancel ended them without an edit. The updates counted are those from
\* the recipient on.
transferAtRecipient(kind, old) ==
  /\ scene = "none"
  /\ scene' = "transfer-scene"
  /\ cursor' = 2
  /\ sessionData' = [noData EXCEPT !.recipient_type = kind]
  /\ run' = run + 1
  /\ threw' = FALSE
  /\ oldButtons' = old /\ noTimeout
  /\ confirmOn' = aged(confirmOn)
  /\ lastAmount' = Absent /\ lastEntry' = Absent /\ lastLookup' = Absent /\ lastPlaceholder' = Absent
  /\ lastAddress' = Absent /\ lastExec' = Absent /\ lastPrompt' = Absent /\ summary' = Absent
  /\ UNCHANGED <<updates, requests, transferJs, lastCancel, lastEnter>>
  /\ UNCHANGED now
  /\ UNCHANGED <<relayVars, gwVars, sessVars, otpVars, chatVars, subVars>>

\* what a refused edit of the prompt leaves in lastPrompt; resent: the step
\* sent a new message and stored its id in current_message_id; replies:
\* Telegram accepts what the chat is sent as a new message
promptEdit(resent, how, bad) ==
  [cursor |-> cursor, resent |-> resent, how |-> how, replies |-> ("failure" \notin bad)]

\* what the entry of an address leaves in lastAddress
addressInput(text, how, reprompted, bad) ==
  [text |-> text, cursor |-> cursor, how |-> how, reprompted |-> reprompted,
   delivered |-> (bad = {})]

\* step 3 of the transfer scene with one recipient: a press on payee_<id>
\* (found: getPayees returns that payee), on cancel_transfer or on another
\* button, or a text, which the wallet method takes as the address;
\* balOk: the balances could be read, so there is a default source wallet
transferStep3(kind, text, found, balOk, bad, crash) ==
  /\ scene = "transfer-scene" /\ cursor = 2
  /\ sessionData.recipient_type \in {"email", "wallet"}
  /\ ~sessionData.adding_payee
  /\ kind = "payee" => ("payee" \in oldButtons \/ sessionData.recipient_type = "email")
  /\ LET typed == kind = "text" /\ sessionData.recipient_type = "wallet"
         defaultWalletId == IF balOk THEN "w1" ELSE Null
         begun == "ack" \notin bad /\ "notice" \notin bad
         d == CASE typed ->
                     IF "notice" \in bad
                       THEN [sessionData EXCEPT !.wallet_address = text]
                       ELSE [sessionData EXCEPT !.wallet_address = text,
                                                !.selected_wallet = defaultWalletId]
                [] kind = "payee" /\ found /\ begun ->
                     [sessionData EXCEPT !.selected_payee = "p1",
                                         !.selected_wallet = defaultWalletId]
                [] OTHER -> sessionData
         how == CASE kind = "cancel_transfer" ->
                       IF "ack" \in bad \/ "result" \in bad THEN "throw" ELSE "leave"
                  [] kind = "payee" ->
                       IF ~begun \/ "result" \in bad THEN "throw"
                       ELSE IF found THEN "next" ELSE "stay"
                  [] typed ->
                       IF "notice" \in bad THEN "throw"
                       ELSE IF badAddress(text)
                         THEN IF "result" \in bad THEN "throw" ELSE "stay"
                       ELSE IF "result" \in bad /\ "failure" \in bad THEN "throw"
                       ELSE "next"
                  [] kind = "text" /\ ~typed -> IF "notice" \in bad THEN "throw" ELSE "stay"
                  [] OTHER -> IF begun THEN "stay" ELSE "throw"
     IN /\ endStep(scene, cursor, run, d, how, <<>>, crash)
        /\ lastAddress' = IF typed
                            THEN addressInput(text, how,
                                              badAddress(text) /\ "notice" \notin bad
                                                /\ "result" \notin bad, bad)
                            ELSE Absent
        /\ oldButtons' = IF kind = "payee" /\ begun /\ sessionData.recipient_type = "wallet"
                           THEN oldButtons \ {"payee"} ELSE oldButtons
        /\ summary' = keptSummary(how, crash)
        /\ lastExec' = Absent /\ noTimeout
        /\ lastPrompt' = IF typed /\ ("notice" \in bad \/ "result" \in bad)
                           THEN promptEdit(~badAddress(text) /\ "notice" \notin bad
                                             /\ "failure" \notin bad, how, bad)
                           ELSE Absent
  /\ lastAmount' = Absent /\ lastEntry' = Absent /\ lastLookup' = Absent /\ lastPlaceholder' = Absent
  /\ UNCHANGED <<transferJs, lastCancel, lastEnter, confirmOn>>

\* transferScene.action(/^select_wallet_early_/), for a button of the row of
\* source wallets that is in the chat (on the amount prompt, or on an earlier
\* message): selected_wallet is set and the message of the button is edited
\* to the prompt for the amount; the errors of the edit are caught
selectWalletEarly(walletId, bad, crash) ==
  /\ scene = "transfer-scene"
  /\ sessionData.recipient_type \in {"email", "wallet"}
  /\ \/ "wallet" \in oldButtons
     \/ cursor = 3 /\ sessionData.selected_wallet # Null
  /\ endHandler(scene, cursor, run,
                IF "ack" \in bad THEN sessionData
                ELSE [sessionData EXCEPT !.selected_wallet = walletId],
                IF "ack" \in bad THEN "throw" ELSE "stay", <<>>, crash)

\* step 4 of the transfer scene: the amount
transferStep4(kind, text, bad, crash) ==
  /\ scene = "transfer-scene" /\ cursor = 3
  /\ sessionData.recipient_type \in {"email", "wallet"}
  /\ LET amount == parseFloat(text)
         invalid == isNaN(amount) \/ notPositive(amount)
         d == IF kind = "text" /\ "notice" \notin bad /\ ~invalid
                THEN [sessionData EXCEPT !.amount = amount] ELSE sessionData
         how == CASE kind = "cancel_transfer" ->
                       IF "ack" \in bad \/ "result" \in bad THEN "throw" ELSE "leave"
                  [] kind = "callback" -> IF "ack" \in bad THEN "throw" ELSE "stay"
                  [] kind = "other" -> IF "notice" \in bad THEN "throw" ELSE "stay"
                  [] OTHER -> \* showTransferConfirmation catches what it throws
                       IF "notice" \in bad THEN "throw"
                       ELSE IF invalid THEN IF "result" \in bad THEN "throw" ELSE "stay"
                       ELSE "next"
         \* showTransferConfirmation: the edit, else the reply, shows the summary;
         \* selected_payee.email of no payee throws before either
         shown == /\ kind = "text" /\ "notice" \notin bad /\ ~invalid
                  /\ "result" \notin bad \/ "failure" \notin bad
                  /\ d.recipient_type = "email" => d.selected_payee # Null
     IN /\ endStep(scene, cursor, run, d, how, <<>>, crash)
        /\ summary' = IF shown THEN summaryOf(d) ELSE keptSummary(how, crash)
        /\ lastAddress' = Absent /\ lastExec' = Absent /\ UNCHANGED oldButtons /\ noTimeout
        /\ lastPrompt' = IF kind = "text" /\ ("notice" \in bad \/ "result" \in bad)
                           THEN promptEdit(~invalid /\ "notice" \notin bad
                                             /\ "failure" \notin bad, how, bad)
                           ELSE Absent
        /\ lastAmount' = IF kind = "text" /\ "notice" \notin bad
                           THEN amountInput("transfer", text, how,
                                            invalid /\ "result" \notin bad, bad, <<>>)
                           ELSE Absent
        /\ lastEntry' = Absent /\ lastLookup' = Absent /\ lastPlaceholder' = Absent
  /\ UNCHANGED <<transferJs, lastCancel, lastEnter, confirmOn>>

\* /send outside a scene (inside a scene the update goes to the step of that
\* scene): ctx.scene.enter('transfer-scene') starts a scene session at cursor
\* 0, then step 1 checks the login, empties the data and asks for the method
transferEnter(loggedIn, bad, crash) ==
  /\ scene = "none"
  /\ LET d == freshSession(sessionData)
         how == IF needsLogin(loggedIn)
                  THEN IF "notice" \in bad THEN "throw" ELSE "leave"
                ELSE IF "notice" \in bad THEN "throw" ELSE "next"
     IN /\ endUpdate("transfer-scene", 0, run + 1, d, how, <<>>, crash)
        /\ lastEnter' = [current |-> "transfer-scene", before |-> scene, cursor |-> 0,
                         data |-> d]
        /\ lastLookup' = Absent /\ lastPlaceholder' = Absent
        /\ lastEntry' = entryMade("transfer-scene", loggedIn, how, {}, bad)
  /\ lastAmount' = Absent
  /\ confirmOn' = aged(confirmOn)
  /\ UNCHANGED <<transferJs, lastCancel>>

\* what an execution request leaves in lastExec: the step it was issued at,
\* whether the summary of the flow was on show and whether the recipient and
\* the amount had been taken; accepted: the API answered with an id (of a
\* batch: with a result); reported: the handler showed its failure message
execState(endpoint, shown, complete, accepted, reported) ==
  [endpoint |-> endpoint, cursor |-> cursor, shown |-> shown, complete |-> complete,
   accepted |-> accepted, reported |-> reported]

\* the payload of step 5: the payee or the address, the amount with the
\* number it was computed from, and the source wallet
transferBody(d) ==
  IF d.recipient_type = "email"
    THEN [payeeId |-> d.selected_payee, amount |-> floorE8(d.amount), entered |-> d.amount,
          walletId |-> d.selected_wallet]
    ELSE [walletAddress |-> d.wallet_address, amount |-> floorE8(d.amount),
          entered |-> d.amount, walletId |-> d.selected_wallet]

\* step 5 of the transfer scene: the confirmation
transferStep5(kind, xo, xid, bad, crash) ==
  /\ scene = "transfer-scene" /\ cursor = 4
  /\ LET confirmed == kind = "confirm_transfer" /\ "ack" \notin bad /\ "notice" \notin bad
         endpoint == IF sessionData.recipient_type = "email"
                       THEN "/api/transfers/send" ELSE "/api/transfers/wallet-withdraw"
         \* payee.email of no payee throws before the request
         built == sessionData.recipient_type = "email" => sessionData.selected_payee # Null
         reqs == IF confirmed /\ built /\ xo # "limited"
                   THEN <<sent(endpoint, transferBody(sessionData), NoQuote)>> ELSE <<>>
         success == built /\ xo = "ok" /\ xid /\ "result" \notin bad /\ "extra" \notin bad
         how == CASE kind = "text" -> IF "notice" \in bad THEN "throw" ELSE "stay"
                  [] kind # "text" /\ "ack" \in bad -> "throw"
                  [] kind = "cancel_transfer" /\ "ack" \notin bad ->
                       IF "result" \in bad THEN "throw" ELSE "leave"
                  [] kind = "confirm_transfer" /\ "ack" \notin bad ->
                       IF "notice" \in bad THEN "throw"
                       ELSE IF success THEN "leave"
                       ELSE catchThenLeave(bad)
                  [] OTHER -> "stay"
     IN /\ endStep(scene, cursor, run, sessionData, how, reqs, crash)
        /\ lastExec' = IF reqs = <<>> THEN Absent
                         ELSE execState(endpoint, summary # Absent,
                                        sessionData.amount # NoAmount
                                          /\ summaryOf(sessionData).recipient # Null,
                                        xo = "ok" /\ xid,
                                        ~success /\ "failure" \notin bad)
        /\ summary' = keptSummary(how, crash)
  /\ lastAddress' = Absent /\ lastPrompt' = Absent /\ UNCHANGED oldButtons /\ noTimeout
  /\ lastAmount' = Absent /\ lastEntry' = Absent /\ lastLookup' = Absent /\ lastPlaceholder' = Absent
  /\ UNCHANGED <<transferJs, lastCancel, lastEnter, confirmOn>>

\* the transfer scene is entered and the batch method, the selection of k
\* payees and batch_continue bring it to the prompt for the first amount
batchPrepare(k) ==
  /\ scene = "none"
  /\ endUpdate("transfer-scene", 2, run + 1,
               [noData EXCEPT !.recipient_type = "batch", !.selected = [i \in 1..k |-> i],
                              !.waiting = TRUE],
               "stay", <<>>, FALSE)
  /\ lastAmount' = Absent /\ lastEntry' = Absent /\ lastLookup' = Absent /\ lastPlaceholder' = Absent
  /\ confirmOn' = aged(confirmOn)
  /\ UNCHANGED <<transferJs, lastCancel, lastEnter>>

\* the transfer scene is entered and the batch method and the toggling of
\* payees bring it to the selection list with k payees selected
batchSelected(k) ==
  /\ scene = "none"
  /\ endUpdate("transfer-scene", 2, run + 1,
               [noData EXCEPT !.recipient_type = "batch", !.selected = [i \in 1..k |-> i]],
               "stay", <<>>, FALSE)
  /\ lastAmount' = Absent /\ lastEntry' = Absent /\ lastLookup' = Absent /\ lastPlaceholder' = Absent
  /\ confirmOn' = aged(confirmOn)
  /\ UNCHANGED <<transferJs, lastCancel, lastEnter>>

\* the message of current_message_id shows the selection list of the batch
selectionList ==
  /\ scene = "transfer-scene" /\ cursor = 2
  /\ sessionData.recipient_type = "batch"
  /\ ~sessionData.waiting /\ ~sessionData.same /\ sessionData.amounts = <<>>
  /\ "prompt" \notin confirmOn

\* selected_batch_payees with the payee id toggled: splice or push
toggled(selected, id) ==
  IF \E i \in 1..Len(selected) : selected[i] = id
    THEN SelectSeq(selected, LAMBDA x : x # id)
    ELSE Append(selected, id)

\* transferScene.action(/^batch_select_/): a payee of the list is toggled
batchSelect(id, bad, crash) ==
  /\ selectionList
  /\ endHandler(scene, cursor, run,
                IF "ack" \in bad THEN sessionData
                ELSE [sessionData EXCEPT !.selected = toggled(sessionData.selected, id)],
                IF "ack" \in bad THEN "throw" ELSE "stay", <<>>, crash)

\* transferScene.action('batch_continue'): with no payee selected the list is
\* asked for again, else the amounts are reset and the first is asked for
batchContinue(bad, crash) ==
  /\ selectionList
  /\ LET empty == Len(sessionData.selected) = 0
         prompted == ~empty /\ "ack" \notin bad /\ "result" \notin bad
         d == IF prompted THEN [sessionData EXCEPT !.amounts = <<>>, !.waiting = TRUE]
              ELSE sessionData
         how == IF "ack" \in bad THEN "throw"
                ELSE IF empty
                  THEN IF "notice" \in bad /\ "failure" \in bad THEN "throw" ELSE "stay"
                ELSE IF "result" \in bad /\ "failure" \in bad THEN "throw" ELSE "stay"
     IN endHandler(scene, cursor, run, d, how, <<>>, crash)

\* transferScene.action('batch_same_amount'), the button of the prompt for
\* the first amount: waiting_for_batch_same_amount is set
batchSameAmount(bad, crash) ==
  /\ scene = "transfer-scene" /\ cursor = 2
  /\ sessionData.recipient_type = "batch"
  /\ sessionData.waiting /\ sessionData.amounts = <<>>
  /\ LET asked == "ack" \notin bad /\ "notice" \notin bad
     IN endHandler(scene, cursor, run,
                   IF asked THEN [sessionData EXCEPT !.same = TRUE] ELSE sessionData,
                   IF asked THEN "stay" ELSE "throw", <<>>, crash)

\* showBatchConfirmation with the amounts given: the summary with the
\* Confirm button, or "No recipients or amounts specified"
confirmationShown(d) == Len(d.selected) > 0 /\ Len(d.amounts) > 0

\* selectedPayees.map(payee => ({id, email, amount}))
sameForAll(selected, amount) ==
  [i \in 1..Len(selected) |-> [id |-> selected[i], amount |-> amount]]

\* step 3 of the transfer scene given a text while waiting_for_batch_amount
\* (the amount of the current payee) or else while
\* waiting_for_batch_same_amount (the amount of all payees);
\* current_message_id is set since step 1
batchAmount(text, bad, crash) ==
  /\ scene = "transfer-scene" /\ cursor = 2
  /\ sessionData.recipient_type = "batch"
  /\ sessionData.waiting \/ sessionData.same
  /\ sessionData.waiting => Len(sessionData.amounts) < Len(sessionData.selected)
  /\ LET amount == parseFloat(text)
         invalid == isNaN(amount) \/ notPositive(amount)
         currentIndex == Len(sessionData.amounts)
         pushed == Append(sessionData.amounts,
                          [id |-> sessionData.selected[currentIndex + 1], amount |-> amount])
         done == ~sessionData.waiting \/ Len(pushed) >= Len(sessionData.selected)
         d == IF invalid THEN sessionData
              ELSE IF sessionData.waiting
                THEN [sessionData EXCEPT !.amounts = pushed,
                                         !.waiting = ~done /\ "result" \notin bad]
              ELSE [sessionData EXCEPT
                      !.amounts = sameForAll(sessionData.selected, amount),
                      !.same = FALSE]
         how == IF invalid
                  THEN IF "notice" \in bad THEN "throw" ELSE "stay"
                ELSE IF "result" \notin bad THEN "stay"
                ELSE IF done /\ "failure" \notin bad THEN "stay" ELSE "throw"
     IN /\ endUpdate(scene, cursor, run, d, how, <<>>, crash)
        /\ lastAmount' = amountInput("batch", text, how, invalid /\ "notice" \notin bad, bad,
                                    <<>>)
        /\ lastEntry' = Absent /\ lastLookup' = Absent /\ lastPlaceholder' = Absent
        /\ confirmOn' = IF ~invalid /\ done /\ "result" \notin bad /\ confirmationShown(d)
                          THEN confirmOn \cup {"prompt"}
                          ELSE confirmOn
  /\ UNCHANGED <<transferJs, lastCancel, lastEnter>>

\* the first amount given to another payee, whoever asks
firstAmount(amounts, id) == amounts[1]

\* payeeAmounts.find(pa => pa.id === payee.id)
payeeAmount(amounts, id) ==
  amounts[CHOOSE j \in 1..Len(amounts) :
            amounts[j].id = id /\ \A h \in 1..(j - 1) : amounts[h].id # id]

\* the requests of the payload of processBatchTransfer: one per selected
\* payee that has an amount, each with a fresh uuidv4()
batchRequests(d) ==
  LET withAmount == SelectSeq(d.selected,
                              LAMBDA id : \E j \in 1..Len(d.amounts) : d.amounts[j].id = id)
  IN [i \in 1..Len(withAmount) |->
        [requestId |-> <<updates + 1, i>>, payeeId |-> withAmount[i],
         amount |-> floorE8(payeeAmount(d.amounts, withAmount[i]).amount),
         entered |-> payeeAmount(d.amounts, withAmount[i]).amount]]

\* transferScene.action('confirm_batch_transfer'): processBatchTransfer, for
\* a Confirm button that is in the chat
processBatchTransfer(xo, xresp, bad, crash) ==
  /\ scene = "transfer-scene"
  /\ confirmOn # {}
  /\ LET begun == "ack" \notin bad /\ "notice" \notin bad
         \* the message whose button was pressed, which ctx.editMessageText edits
         pressed == IF "prompt" \in confirmOn THEN "prompt" ELSE "old"
         body == [requests |-> batchRequests(sessionData), selected |-> sessionData.selected,
                  given |-> sessionData.amounts]
         reqs == IF begun /\ xo # "limited"
                   THEN <<sent("/api/transfers/send-batch", body, NoQuote)>> ELSE <<>>
         success == begun /\ xo = "ok" /\ xresp /\ "result" \notin bad
                            /\ "extra" \notin bad
         how == IF "ack" \in bad THEN "throw"
                ELSE IF success THEN "leave"
                ELSE catchThenLeave(bad)
     IN /\ endStep(scene, cursor, run, sessionData, how, reqs, crash)
        /\ lastExec' = IF reqs = <<>> THEN Absent
                         ELSE execState("/api/transfers/send-batch", pressed = "prompt",
                                        Len(body.requests) >= 1,
                                        xo = "ok" /\ xresp,
                                        ~success /\ "failure" \notin bad)
        /\ summary' = keptSummary(how, crash)
        /\ lastAddress' = Absent /\ lastPrompt' = Absent /\ UNCHANGED oldButtons /\ noTimeout
        /\ confirmOn' = IF begun \/ ("ack" \notin bad /\ "failure" \notin bad)
                          THEN confirmOn \ {pressed} ELSE confirmOn
  /\ lastAmount' = Absent /\ lastEntry' = Absent /\ lastLookup' = Absent /\ lastPlaceholder' = Absent
  /\ UNCHANGED <<transferJs, lastCancel, lastEnter>>

\* what makeApiRequest returns from a quote endpoint when it ends as o
ResponsesOf(o) == IF o = "ok" THEN QuoteResponses ELSE {NoQuote}

\* how a call can end that is made only if the calls before it went well
OutcomesIf(reached) == IF reached THEN ApiOutcomes ELSE {"limited"}

FlowNext ==
  \/ \E loggedIn, balOk, crash \in BOOLEAN, bad \in SUBSET (TgCalls \ {"ack", "extra"}) :
       withdrawalStep1(loggedIn, balOk, bad, crash)
  \/ \E kind \in {"text", "command", "callback"}, crash \in BOOLEAN,
        bad \in SUBSET (TgCalls \ {"ack", "extra"}) :
       \E text \in IF kind = "text" THEN {"0", "2"} ELSE {"2"} :
         \E po \in OutcomesIf(kind = "text" /\ text = "2") :
           \E q \in ResponsesOf(po) :
             withdrawalStep2(kind, text, "ok", po, q, bad, crash)
  \/ \E kind \in {"text", "cancel_withdrawal", "confirm_withdrawal", "other"},
        crash \in BOOLEAN, bad \in SUBSET (TgCalls \ {"extra"}) :
       \E qo \in OutcomesIf(kind = "confirm_withdrawal") :
         \E q \in ResponsesOf(qo) :
           \E xo \in OutcomesIf(q.quotePayload # Null /\ q.quoteSignature # Null) :
             \E xid \in IF xo = "ok" THEN BOOLEAN ELSE {FALSE} :
               withdrawalStep3(kind, qo, q, xo, xid, bad, crash)
  \/ \E bad \in SUBSET {"notice"}, crash \in BOOLEAN : withdrawalCancel(bad, crash)
  \/ \E loggedIn, crash \in BOOLEAN, bad \in SUBSET {"notice"} :
       transferEnter(loggedIn, bad, crash)
  \/ \E kind \in {"email", "wallet", "batch"} : transferPrepare(kind)
  \/ \E kind \in {"text", "cancel_transfer", "confirm_transfer", "other"},
        crash \in BOOLEAN, bad \in SUBSET TgCalls :
       \E xo \in OutcomesIf(kind = "confirm_transfer") :
         \E xid \in IF xo = "ok" THEN BOOLEAN ELSE {FALSE} :
           transferStep5(kind, xo, xid, bad, crash)
  \/ \E xo \in ApiOutcomes, crash \in BOOLEAN, bad \in SUBSET TgCalls :
       \E xresp \in IF xo = "ok" THEN BOOLEAN ELSE {FALSE} :
         processBatchTransfer(xo, xresp, bad, crash)

\* the copies of commands/transfer.js: the two of part_006 and that of part_005
TransferModules == {"part_006:1", "part_006:1260", "part_005"}

\* the wizard scenes of the stage and the number of their steps
SceneSteps ==
  [s \in {"login-scene", "transfer-scene", "withdrawal-scene", "add-payee-scene"} |->
     IF s = "transfer-scene" THEN 5 ELSE 3]

SceneInit ==
  /\ transferJs = "part_006:1260"
  /\ lastCancel = Absent
  /\ lastEnter = Absent
  /\ lastAmount = Absent
  /\ lastEntry = Absent
  /\ lastLookup = Absent
  /\ lastPlaceholder = Absent
  /\ confirmOn = {}
  /\ oldButtons = {}
  /\ lastAddress = Absent
  /\ summary = Absent
  /\ lastExec = Absent
  /\ lastPrompt = Absent
  /\ timeouts = {}
  /\ lastLate = Absent

\* a scene is entered and its steps bring the conversation to step cur, in
\* the transfer scene with the recipient type kind
scenePrepare(sc, cur, kind) ==
  /\ scene = "none"
  /\ LET d == IF sc = "transfer-scene" /\ cur = 4 /\ kind # "batch"
                THEN recipientTaken([noData EXCEPT !.recipient_type = kind,
                                                   !.amount = parseFloat("2")])
              ELSE IF sc = "transfer-scene" /\ cur = 3
                THEN recipientTaken([noData EXCEPT !.recipient_type = kind])
              ELSE [noData EXCEPT !.recipient_type = kind]
     IN /\ endStep(sc, cur, run + 1, d, "stay", <<>>, FALSE)
        /\ summary' = IF sc = "transfer-scene" /\ cur = 4 /\ kind # "batch"
                        THEN summaryOf(d) ELSE Absent
  /\ lastAddress' = Absent /\ lastExec' = Absent /\ lastPrompt' = Absent /\ UNCHANGED oldButtons /\ noTimeout
  /\ lastCancel' = Absent
  /\ lastAmount' = Absent /\ lastEntry' = Absent /\ lastLookup' = Absent /\ lastPlaceholder' = Absent
  /\ confirmOn' = aged(confirmOn)
  /\ UNCHANGED <<transferJs, lastEnter>>

\* ctx.scene.session.data.batchPayeeData: the batch subflow is under way
batchPayeeData(d) == d.recipient_type = "batch"

\* the handler that takes the text /cancel in scene sc: the handlers of a
\* scene run in the order of their registration and before its steps, and
\* the first copy of transfer.js registers on('text') before command('cancel')
cancelTaker(sc, d) ==
  IF sc = "transfer-scene" /\ transferJs = "part_006:1"
    THEN IF batchPayeeData(d) THEN "handleBatchPayeeAmount" ELSE "ignored"
    ELSE "command"

\* the user sends /cancel in a scene; hasMsg: ctx.scene.session.messageId is
\* set (add-payee scene)
cancelCommand(hasMsg, bad, crash) ==
  /\ scene # "none"
  /\ LET taker == cancelTaker(scene, sessionData)
         acked == IF scene = "add-payee-scene" /\ hasMsg
                    THEN ~({"notice", "result"} \subseteq bad)
                    ELSE "notice" \notin bad
         how == CASE taker = "command" -> IF acked THEN "leave" ELSE "throw"
                  [] taker = "ignored" -> "stay"
                  [] OTHER -> \* parseFloat("/cancel") is NaN: "Invalid amount"
                       IF "notice" \in bad THEN "throw" ELSE "stay"
     IN /\ endUpdate(scene, cursor, run, sessionData, how, <<>>, crash)
        /\ lastCancel' = [scene |-> scene, cursor |-> cursor, taker |-> taker,
                          left |-> (how = "leave"), replied |-> (taker = "command" /\ acked),
                          delivered |-> (bad = {})]
  /\ lastAmount' = Absent /\ lastEntry' = Absent /\ lastLookup' = Absent /\ lastPlaceholder' = Absent
  /\ UNCHANGED <<transferJs, lastEnter, confirmOn>>

\* the scenes and the /cancel command
SceneNext ==
  \/ \E sc \in DOMAIN SceneSteps :
       \E cur \in 1..(SceneSteps[sc] - 1),
          kind \in IF sc = "transfer-scene" THEN {"email", "wallet", "batch"} ELSE {"none"} :
         scenePrepare(sc, cur, kind)
  \/ \E hasMsg, crash \in BOOLEAN, bad \in SUBSET {"notice", "result"} :
       cancelCommand(hasMsg, bad, crash)

\* the amounts of the flows: the withdrawal, the transfer to one recipient and
\* the batch of up to MaxPayees payees
AmountNext ==
  \/ \E bad \in SUBSET {"notice"} : withdrawalStep1(TRUE, TRUE, bad, FALSE)
  \/ \E text \in AmountTexts, bad \in SUBSET {"notice", "result"} :
       \E me \in IF notPositive(parseFloat(text)) THEN {"ok"} ELSE LookupOutcomes :
         \E po \in OutcomesIf(~notPositive(parseFloat(text))) :
           \E q \in IF po = "ok" THEN {[quotePayload |-> "q1", quoteSignature |-> "s1"]}
                      ELSE {NoQuote} :
             withdrawalStep2("text", text, me, po, q, bad, FALSE)
  \/ \E kind \in {"email", "wallet"} : scenePrepare("transfer-scene", 3, kind)
  \/ \E kind \in {"text", "cancel_transfer", "callback", "other"}, text \in AmountTexts,
        bad \in SUBSET {"notice", "result"} :
       transferStep4(kind, text, bad, FALSE)
  \/ \E kind \in {"cancel_transfer", "confirm_transfer"}, xo \in ApiOutcomes :
       transferStep5(kind, xo, TRUE, {}, FALSE)
  \/ \E k \in 1..MaxPayees : batchPrepare(k)
  \/ \E text \in AmountTexts, bad \in SUBSET {"notice", "result"} :
       batchAmount(text, bad, FALSE)
  \/ \E xo \in ApiOutcomes : processBatchTransfer(xo, TRUE, {}, FALSE)

\* the batch subflow of the transfer scene, /cancel and /send
BatchNext ==
  \/ \E k \in 0..MaxPayees : batchSelected(k)
  \/ \E id \in 1..MaxPayees, bad \in SUBSET {"ack"} : batchSelect(id, bad, FALSE)
  \/ \E bad \in SUBSET {"ack", "notice"} : batchContinue(bad, FALSE)
  \/ \E bad \in SUBSET {"ack"} : batchSameAmount(bad, FALSE)
  \/ \E text \in {"abc", "0.5", "2"}, bad \in SUBSET {"notice", "result"} :
       batchAmount(text, bad, FALSE)
  \/ transferPrepare("batch")
  \/ \E bad \in SUBSET {"notice"} : cancelCommand(FALSE, bad, FALSE)
  \/ \E loggedIn \in BOOLEAN : transferEnter(loggedIn, {}, FALSE)
  \/ \E xo \in ApiOutcomes : processBatchTransfer(xo, TRUE, {}, FALSE)

\* a scene is entered and brought to the prompt for the nickname of a new
\* payee: step 3 of the add-payee scene, or step 3 of the transfer scene
\* after add_new_payee and the email
nicknamePrepare(sc) ==
  /\ scene = "none"
  /\ endUpdate(sc, 2, run + 1,
               IF sc = "transfer-scene"
                 THEN [noData EXCEPT !.recipient_type = "email", !.adding_payee = TRUE]
                 ELSE noData,
               "stay", <<>>, FALSE)
  /\ lastCancel' = Absent
  /\ lastAmount' = Absent /\ lastEntry' = Absent /\ lastLookup' = Absent /\ lastPlaceholder' = Absent
  /\ confirmOn' = aged(confirmOn)
  /\ UNCHANGED <<transferJs, lastEnter>>

\* the nickname of the new payee is given: POST /api/payees (ao), the edit
\* that reports it, and on success setTimeout(..., 1000) with a callback that
\* shows the payee list; the add-payee scene is then left, the transfer scene
\* stays at step 3
saveNewPayee(ao, bad, crash) ==
  /\ \/ scene = "add-payee-scene" /\ cursor = 2
     \/ scene = "transfer-scene" /\ cursor = 2 /\ sessionData.adding_payee
  /\ LET added == "notice" \notin bad /\ ao = "ok" /\ "result" \notin bad
         after == IF scene = "add-payee-scene" THEN "leave" ELSE "stay"
         how == IF "notice" \in bad THEN "throw"
                ELSE IF added THEN after
                ELSE IF "failure" \in bad THEN "throw" ELSE after
         d == IF added /\ scene = "transfer-scene"
                THEN [sessionData EXCEPT !.adding_payee = FALSE] ELSE sessionData
     IN /\ endStep(scene, cursor, run, d, how, <<>>, crash)
        /\ timeouts' = IF added THEN timeouts \cup {[scene |-> scene, run |-> run]}
                         ELSE timeouts
        /\ summary' = keptSummary(how, crash)
  /\ lastLate' = Absent
  /\ lastAddress' = Absent /\ lastExec' = Absent /\ lastPrompt' = Absent
  /\ lastCancel' = Absent
  /\ lastAmount' = Absent /\ lastEntry' = Absent /\ lastLookup' = Absent /\ lastPlaceholder' = Absent
  /\ UNCHANGED <<transferJs, lastEnter, confirmOn, oldButtons>>

\* the callback of a setTimeout runs: it tests nothing and goes on to show
\* the payee list, in the transfer scene by an edit of the message of
\* ctx.scene.session.data.current_message_id, after the add-payee scene with
\* the messages of payeeCommand
timeoutRuns(t) ==
  /\ t \in timeouts
  /\ timeouts' = timeouts \ {t}
  /\ lastLate' = [scene |-> t.scene, active |-> (scene = t.scene /\ run = t.run),
                  shows |-> TRUE, reads |-> (t.scene = "transfer-scene")]
  /\ lastCancel' = Absent
  /\ lastAmount' = Absent /\ lastEntry' = Absent /\ lastLookup' = Absent /\ lastPlaceholder' = Absent
  /\ lastAddress' = Absent /\ lastExec' = Absent /\ lastPrompt' = Absent
  /\ UNCHANGED <<transferJs, lastEnter, confirmOn, oldButtons, summary>>
  /\ UNCHANGED now
  /\ UNCHANGED <<relayVars, gwVars, flowVars, sessVars, otpVars, chatVars, subVars>>

\* the addition of a payee, /cancel and the callbacks of setTimeout
PayeeNext ==
  \/ \E sc \in {"add-payee-scene", "transfer-scene"} : nicknamePrepare(sc)
  \/ \E ao \in ApiOutcomes, crash \in BOOLEAN, bad \in SUBSET {"notice", "result", "failure"} :
       saveNewPayee(ao, bad, crash)
  \/ \E hasMsg \in BOOLEAN, bad \in SUBSET {"notice", "result"} :
       cancelCommand(hasMsg, bad, FALSE)
  \/ \E loggedIn \in BOOLEAN : transferEnter(loggedIn, {}, FALSE)
  \/ \E t \in timeouts : timeoutRuns(t)

\* the transfer to one recipient, from the recipient to the confirmation
TransferNext ==
  \/ \E kind \in {"email", "wallet"}, old \in SUBSET {"payee", "wallet"} :
       transferAtRecipient(kind, old)
  \/ \E walletId \in {"w1", "w2"}, bad \in SUBSET {"ack"} :
       selectWalletEarly(walletId, bad, FALSE)
  \/ \E kind \in {"text", "payee", "cancel_transfer", "other"},
        bad \in SUBSET {"notice", "result", "failure"} :
       \E text \in IF kind = "text" THEN AddressTexts ELSE {"abc"},
          found \in IF kind = "payee" THEN BOOLEAN ELSE {FALSE},
          balOk \in IF kind \in {"text", "payee"} THEN BOOLEAN ELSE {TRUE} :
         transferStep3(kind, text, found, balOk, bad, FALSE)
  \/ \E kind \in {"text", "cancel_transfer", "callback"},
        bad \in SUBSET {"notice", "result", "failure"} :
       \E text \in IF kind = "text" THEN {"abc", "2"} ELSE {"2"} :
         transferStep4(kind, text, bad, FALSE)
  \/ \E kind \in {"text", "cancel_transfer", "confirm_transfer"},
        bad \in SUBSET {"result", "extra", "failure"} :
       \E xo \in OutcomesIf(kind = "confirm_transfer") :
         \E xid \in IF xo = "ok" THEN BOOLEAN ELSE {FALSE} :
           transferStep5(kind, xo, xid, bad, FALSE)
  \/ \E bad \in SUBSET {"notice"} : cancelCommand(FALSE, bad, FALSE)

\* the chats that talk to the bot
Chats == {1, 2}

ChatInit ==
  /\ inFlight = {}
  /\ arrived = 0
  /\ ended = <<>>

\* an update of a chat is delivered (by the webhook or by bot.launch()): the
\* middleware chain bot.use(session()), bot.use(stage.middleware()) is run for
\* it at once, whatever handlers are suspended, and the step it reaches runs
\* up to its first await of an API call, a store access or a message send
handleUpdate(chat) ==
  /\ arrived < MaxUpdates
  /\ arrived' = arrived + 1
  /\ inFlight' = inFlight \cup {[chat |-> chat, update |-> arrived + 1]}
  /\ UNCHANGED ended
  /\ UNCHANGED <<now, relayVars, gwVars, flowVars, sessVars, otpVars, sceneVars, subVars>>

\* the call a handler awaits settles and the handler runs to its end
handlerEnds(h) ==
  /\ h \in inFlight
  /\ inFlight' = inFlight \ {h}
  /\ ended' = Append(ended, h)
  /\ UNCHANGED arrived
  /\ UNCHANGED <<now, relayVars, gwVars, flowVars, sessVars, otpVars, sceneVars, subVars>>

\* a press on confirm_transfer is delivered while the session is at step 5:
\* the handler answers the callback, edits the message to 'Processing your
\* transfer...', builds the payload from the session and awaits
\* makeApiRequest; the session stays as it is until the handler goes on
confirmBegins ==
  /\ scene = "transfer-scene" /\ cursor = 4
  /\ sessionData.recipient_type \in {"email", "wallet"}
  /\ updates < MaxUpdates
  /\ updates' = updates + 1
  /\ requests' = Append(requests,
                        sent(IF sessionData.recipient_type = "email"
                               THEN "/api/transfers/send"
                               ELSE "/api/transfers/wallet-withdraw",
                             transferBody(sessionData), NoQuote))
  /\ inFlight' = inFlight \cup {[chat |-> 1, update |-> updates + 1]}
  /\ threw' = FALSE
  /\ UNCHANGED <<scene, cursor, sessionData, run, arrived, ended>>
  /\ UNCHANGED <<now, relayVars, gwVars, sessVars, otpVars, sceneVars, subVars>>

\* makeApiRequest settles for a handler of confirm_transfer: the result or
\* the failure is shown and, whichever it was, the handler calls
\* ctx.scene.leave()
confirmSettles(h) ==
  /\ h \in inFlight
  /\ inFlight' = inFlight \ {h}
  /\ ended' = Append(ended, h)
  /\ scene' = "none" /\ cursor' = 0 /\ sessionData' = freshSession(sessionData)
  /\ threw' = FALSE
  /\ UNCHANGED <<run, updates, requests, arrived>>
  /\ UNCHANGED <<now, relayVars, gwVars, sessVars, otpVars, sceneVars, subVars>>

\* the confirmation of a transfer to one recipient with its await
ConfirmNext ==
  \/ \E kind \in {"email", "wallet"} : inFlight = {} /\ transferPrepare(kind)
  \/ confirmBegins
  \/ \E h \in inFlight : confirmSettles(h)
  \/ \E bad \in SUBSET {"notice"} : inFlight = {} /\ cancelCommand(FALSE, bad, FALSE)

\* the updates of the chats and their handlers
ChatNext ==
  \/ \E chat \in Chats : handleUpdate(chat)
  \/ \E h \in inFlight : handlerEnds(h)

\* the deposit events of a session: well-formed deposits of one transaction
SessionDeposits == {p \in DepositPayloads : validDeposit(p) /\ p.txHash = "0xa"}

\* a login session: logins, logouts, relay registrations and deposit events
SessionNext ==
  \/ \E u \in GwUsers, p \in ServerTokens, o \in ProfileOutcomes : authenticated(u, p, o)
  \/ \E u \in GwUsers : logout(u)
  \/ \E u \in GwUsers : connectToPusher(u)
  \/ \E u \in GwUsers, d \in SessionDeposits : depositEvent(u, d)
  \/ GwTick

vars == <<now, relayVars, gwVars, flowVars, sessVars, otpVars, sceneVars, chatVars, subVars>>

Init ==
  /\ now = 0
  /\ RelayInit
  /\ GwInit
  /\ FlowInit
  /\ SessInit
  /\ OtpInit
  /\ SceneInit
  /\ ChatInit
  /\ SubInit

RelayNext ==
  \/ setBotInstance
  \/ \E u \in RelayUsers, d \in DepositPayloads : handleDepositEvent(u, d)
  \/ \E s \in sending : sendMessageOk(s)
  \/ \E s \in sending : sendMessageFail(s)
  \/ \E t \in timers : timerFire(t)
  \/ RelayTick

SpecRelay == Init /\ [][RelayNext]_vars

SpecGateway == Init /\ [][GwNext]_vars

SpecToken == Init /\ [][TokenNext]_vars

SpecFlow == Init /\ [][FlowNext]_vars

\* the start with either backing store: Redis configured, or the in-process map
InitStores ==
  /\ now = 0
  /\ RelayInit
  /\ GwInit \/ GwInitMemory
  /\ FlowInit
  /\ SessInit
  /\ OtpInit
  /\ SceneInit
  /\ ChatInit
  /\ SubInit

\* the API gateway over either backing store
SpecGatewayStores == InitStores /\ [][GwNext]_vars

\* login sessions over either backing store
SpecSession == InitStores /\ [][SessionNext]_vars

SpecOtp == Init /\ [][OtpNext]_vars

\* the start with any of the copies of transfer.js
InitModules ==
  /\ now = 0
  /\ RelayInit
  /\ GwInit
  /\ FlowInit
  /\ SessInit
  /\ OtpInit
  /\ transferJs \in TransferModules
  /\ lastCancel = Absent
  /\ lastEnter = Absent
  /\ lastAmount = Absent
  /\ lastEntry = Absent
  /\ lastLookup = Absent
  /\ lastPlaceholder = Absent
  /\ confirmOn = {}
  /\ oldButtons = {}
  /\ lastAddress = Absent
  /\ summary = Absent
  /\ lastExec = Absent
  /\ lastPrompt = Absent
  /\ timeouts = {}
  /\ lastLate = Absent
  /\ ChatInit
  /\ SubInit

SpecScenes == InitModules /\ [][SceneNext]_vars

SpecAmounts == Init /\ [][AmountNext]_vars

SpecBatch == Init /\ [][BatchNext]_vars

SpecChats == Init /\ [][ChatNext]_vars

SpecTransfer == Init /\ [][TransferNext]_vars

SpecPayees == Init /\ [][PayeeNext]_vars

SpecConfirm == Init /\ [][ConfirmNext]_vars

\* the start with either definition of class PusherClient
InitChannels ==
  /\ now = 0
  /\ RelayInit
  /\ GwInit
  /\ FlowInit
  /\ SessInit
  /\ OtpInit
  /\ SceneInit
  /\ ChatInit
  /\ pusherClientJs \in PusherModules
  /\ connected = FALSE
  /\ channels = {}
  /\ bindings = [n \in {} |-> 0]
  /\ published = {}

ChannelNext ==
  \/ setBotInstance
  \/ \E name \in ChannelNames, kept \in BOOLEAN : subscribeCall(name, kept)
  \/ \E kept1, kept2 \in BOOLEAN : connectedEvent(kept1, kept2)
  \/ disconnectedEvent
  \/ \E txHash \in TxHashes : depositPublished(txHash)
  \/ \E s \in sending : sendMessageOk(s)
  \/ \E s \in sending : sendMessageFail(s)
  \/ \E t \in timers : timerFire(t)
  \/ RelayTick

\* the relay instance of one user: its subscriptions and the events it relays
SpecChannels == InitChannels /\ [][ChannelNext]_vars

(***************************************************************************)
(* Claims about the Notification Relay.                                    *)
(***************************************************************************)
RelayKeys == {cacheKey(u, h) : u \in RelayUsers, h \in TxHashes}

keyMessages(key) == SelectSeq(messages, LAMBDA m : m.key = key)

\* the times at which a key was marked by a handling that delivered or is
\* still sending
marks(key) ==
  {messages[i].markedAt : i \in {j \in DOMAIN messages : messages[j].key = key}}
    \cup {s.markedAt : s \in {x \in sending : x.key = key}}

\* C5: for every (user, txHash), once a message for the pair has been
\* delivered, no second message for it is delivered until a full retention
\* window has passed since the marking that accompanied that delivery,
\* whatever the delivery failures, redeliveries and expiry timers.
C5_AtMostOnePerWindow ==
  \A i, j \in DOMAIN messages :
    (i < j /\ messages[i].key = messages[j].key)
      => messages[j].at >= messages[i].markedAt + RetentionWindow

C7_FailedDeliveryUnmarks == unsent \cap notificationCache = {}

(***************************************************************************)
(* Claims about the API gateway and the credential store.                  *)
(***************************************************************************)
\* C3: a call of makeApiRequest on a money-movement endpoint issues at most
\* one HTTP request to that endpoint: no call in flight has sent more than
\* one, and a call that ended after its request (success, HTTP error, 401 or
\* network failure) has sent exactly one.
C3_SingleRequest ==
  /\ \A c \in calls : c.op = "gw" => c.sent <= 1
  /\ lastDone # Absent => lastDone.sent = 1

\* C3 witness: a call on /api/transfers/send has just ended with a network
\* failure after its single request
C3_Witness ==
  /\ lastDone # Absent
  /\ lastDone.endpoint = "/api/transfers/send"
  /\ lastDone.outcome = "network"
  /\ lastDone.sent = 1

\* C4: a call of makeApiRequest by user u on path p that starts when N calls
\* have been counted in the current window of (u, p) fails with the
\* rate-limit error carrying the time until the reset and starts no HTTP
\* call (neither the request nor a token refresh); a call that starts when
\* there is no window or the window has elapsed is admitted and goes on to
\* its HTTP call.
C4_RateLimit ==
  [][lastCall' # Absent =>
       LET key == <<lastCall'.user, lastCall'.endpoint>>
           e == rateLimits[key]
           N == rateLimitConfig(lastCall'.endpoint).limit
           inWindow == e # Absent /\ now <= e.resetTime
       IN /\ (inWindow /\ e.count >= N) =>
               /\ lastCall'.limited
               /\ lastCall'.resetIn = e.resetTime - now
               /\ calls' = calls
          /\ ~inWindow =>
               /\ ~lastCall'.limited
               /\ \E c \in calls' \ calls :
                    c.id = lastCall'.id /\ c.pc \in {"sending", "getRefresh", "gwRefresh"}
    ]_vars

\* C4 witness: a call has just been admitted for a key that was rate limited
\* in an earlier window
C4_Witness ==
  /\ lastCall # Absent
  /\ ~lastCall.limited
  /\ <<lastCall.user, lastCall.endpoint>> \in limitedKeys
  /\ \E c \in calls : c.id = lastCall.id

\* C8: every token getUserToken returns that carries an expiresAt satisfies
\* now < expiresAt.
C8_ReturnedTokenUsable ==
  (lastGet # Absent /\ lastGet.token # Absent /\ lastGet.token.expiresAt # Undefined) =>
    now < lastGet.token.expiresAt

\* C9: when the refresh attempt of getUserToken has failed, absent is
\* returned and the stored entry is deleted.
C9_FailedRefreshDeletes ==
  (lastGet # Absent /\ lastGet.refreshFailed) =>
    (lastGet.token = Absent /\ ~lastGet.entryLeft)

\* C10: concurrent invocations of getUserToken for one user share a single
\* call to /api/auth/refresh: no user has two refresh calls in flight.
C10_SingleRefreshInFlight ==
  \A u \in GwUsers :
    Cardinality({c \in calls : c.user = u /\ c.pc = "getRefresh"}) <= 1

(***************************************************************************)
(* Claims about the conversation flows.                                    *)
(***************************************************************************)
\* C1: every request to POST /api/transfers/offramp carries exactly the
\* {quotePayload, quoteSignature} pair that POST /api/quotes/offramp returned
\* to the same confirmation handler of the same flow just before it, both
\* fields present; so nothing is executed on a failed or incomplete
\* authoritative quote, and the stored provisional quote is never what is sent.
C1_ExecutesOfficialQuote ==
  \A i \in DOMAIN requests :
    requests[i].endpoint = "/api/transfers/offramp" =>
      /\ i > 1
      /\ requests[i - 1].endpoint = "/api/quotes/offramp"
      /\ requests[i - 1].run = requests[i].run
      /\ requests[i - 1].update = requests[i].update
      /\ requests[i - 1].response.quotePayload # Null
      /\ requests[i - 1].response.quoteSignature # Null
      /\ requests[i].body = requests[i - 1].response

\* C1 witness: a withdrawal was executed with an authoritative quote that
\* differs from the provisional quote stored at step 2
C1_Witness ==
  \E i \in DOMAIN requests :
    /\ requests[i].endpoint = "/api/transfers/offramp"
    /\ requests[i].stored.quotePayload # Null
    /\ requests[i].body # requests[i].stored

\* C2: once a confirmation has issued the execution request the scene is
\* left, whatever the request and the Telegram calls after it do, and no
\* flow instance issues a second execution request.
C2_ExecutionIsTerminal ==
  /\ \A i \in DOMAIN requests :
       requests[i].endpoint \in ExecEndpoints =>
         ~(scene # "none" /\ run = requests[i].run)
  /\ \A i, j \in DOMAIN requests :
       (i < j /\ requests[i].endpoint \in ExecEndpoints
              /\ requests[j].endpoint \in ExecEndpoints)
         => requests[i].run # requests[j].run

(***************************************************************************)
(* Further claims about the credential store.                              *)
(***************************************************************************)
\* C11: a stored token that has a refresh token and is not yet expired but
\* within the refresh skew of its expiry is not what getUserToken returns:
\* a token returned in that condition has come from a refresh call.
C11_SkewTokenRefreshed ==
  (/\ lastGet # Absent
   /\ lastGet.token # Absent
   /\ lastGet.token.refreshToken
   /\ lastGet.token.expiresAt # Undefined
   /\ now < lastGet.token.expiresAt
   /\ lastGet.token.expiresAt < now + RefreshSkew)
    => lastGet.refreshed

C14_OtpSessionReused ==
  (/\ lastOtp # Absent
   /\ lastOtp.prev # Absent
   /\ lastOtp.prev.createdAt = now) =>
     /\ lastOtp.sid = lastOtp.prev.sid
     /\ ~lastOtp.sent

(***************************************************************************)
(* C15: the verification attempts of one OTP session are capped: of the    *)
(* MaxAttempts calls of verifyEmailOtp of a run, not all are forwarded to  *)
(* the authentication endpoint for the same session.                       *)
(***************************************************************************)
C15_AttemptsCapped == \A s \in 1..MaxOtp : forwarded[s] < MaxAttempts

(***************************************************************************)
(* C16: in every scene and at every step, a /cancel whose Telegram calls   *)
(* go through is taken by the cancel command of the scene, which replies   *)
(* with its acknowledgment and leaves the scene; it is never taken as an   *)
(* input and causes no API call.                                           *)
(***************************************************************************)
C16_CancelLeaves ==
  (lastCancel # Absent /\ lastCancel.delivered) =>
    /\ lastCancel.taker = "command"
    /\ lastCancel.replied
    /\ lastCancel.left
    /\ scene = "none"
    /\ \A i \in 1..Len(requests) : requests[i].update # updates

positiveFinite(amount) == amount.kind = "number" /\ amount.v > 0

\* the numbers the amounts of a request were computed from
enteredIn(r) ==
  IF r.endpoint = "/api/transfers/send-batch"
    THEN {r.body.requests[j].entered : j \in 1..Len(r.body.requests)}
  ELSE IF r.endpoint \in {"/api/quotes/public-offramp", "/api/transfers/send",
                          "/api/transfers/wallet-withdraw"}
    THEN {r.body.entered}
  ELSE {}

\* the requests that carry an amount: those of the history and the quote
\* request of the latest update
amountRequests ==
  requests \o (IF lastAmount = Absent THEN <<>> ELSE lastAmount.quotes)

\* C18: an amount that is not a positive finite number is handled in place
\* (with Telegram answering: the step re-prompts, the cursor stays, the scene
\* is kept), and no request carries an amount computed from such an input.
C18_InvalidAmountInPlace ==
  /\ (/\ lastAmount # Absent
      /\ lastAmount.delivered
      /\ ~positiveFinite(parseFloat(lastAmount.text))) =>
        /\ lastAmount.reprompted
        /\ lastAmount.how = "stay"
        /\ scene # "none"
        /\ cursor = lastAmount.cursor
  /\ \A i \in DOMAIN amountRequests :
       \A a \in enteredIn(amountRequests[i]) : positiveFinite(a)

\* 0.1, in units of 10^-9
MinAmount == 100000000

\* C19: no request to a quote, transfer or batch endpoint carries an amount
\* computed from a positive input below the minimum of 0.1.
C19_SubMinimumRejected ==
  \A i \in DOMAIN amountRequests :
    \A a \in enteredIn(amountRequests[i]) : ~(positiveFinite(a) /\ a.v < MinAmount)

C21_BatchNeedsPayee ==
  /\ (scene = "transfer-scene" /\ sessionData.waiting) => Len(sessionData.selected) >= 1
  /\ \A i \in DOMAIN requests :
       requests[i].endpoint = "/api/transfers/send-batch" =>
         Len(requests[i].body.requests) >= 1

\* C22: a valid amount entered after the uniform option was chosen (with
\* Telegram answering) gives every selected payee that amount and shows the
\* batch confirmation, with no further prompt for the amount of a payee.
C22_UniformAmount ==
  (/\ lastAmount # Absent
   /\ lastAmount.flow = "batch"
   /\ lastAmount.uniform
   /\ lastAmount.delivered
   /\ positiveFinite(parseFloat(lastAmount.text))
   /\ Len(sessionData.selected) >= 1) =>
     /\ sessionData.amounts = sameForAll(sessionData.selected, parseFloat(lastAmount.text))
     /\ "prompt" \in confirmOn
     /\ ~sessionData.waiting

(***************************************************************************)
(* Claims about the handling of updates.                                   *)
(***************************************************************************)
\* C23: at most one handler of a chat is in flight at any time, and the
\* handlers of the updates of one chat end in the order of arrival.
C23_OneStepInFlight ==
  /\ \A h, g \in inFlight : h.chat = g.chat => h = g
  /\ \A i, j \in DOMAIN ended :
       (i < j /\ ended[i].chat = ended[j].chat) => ended[i].update < ended[j].update

(***************************************************************************)
(* Claims about the relay instances.                                       *)
(***************************************************************************)
\* C24: the relay instance registered for a user is bound to the
\* organization the user is logged in to.
C24_InstanceOfCurrentLogin ==
  \A u \in pusherClients : clientOrgs[u] = getOrganizationId(Orgs, u)

C26_UnauthorizedEndsFlow ==
  (lastLookup # Absent /\ lastLookup.outcome = "unauthorized" /\ lastLookup.delivered) =>
    /\ lastLookup.cleared
    /\ scene = "none"
    /\ lastLookup.how = "leave"
    /\ lastLookup.quotes = 0

(***************************************************************************)
(* Claims about the credential store when Redis fails.                     *)
(***************************************************************************)
\* C27: whichever of the credential operations met a failing Redis, a read
\* after a login returns the token of that login while it has not expired,
\* and a read after a logout returns nothing.
C27_FallbackConsistent ==
  lastGet # Absent =>
    /\ (/\ lastStored[lastGet.user] # Absent
        /\ now < lastStored[lastGet.user].expiresAt
        /\ ~lastGet.refreshed) => lastGet.token = lastStored[lastGet.user]
    /\ lastGet.user \in loggedOut => lastGet.token = Absent

(***************************************************************************)
(* Claims about the shape of a deposit event.                              *)
(***************************************************************************)
\* C28: a deposit event that carries an amount, a network and a transaction
\* id is accepted whether the network and the id are nested in metadata or
\* lie at the top level: once it is handled its (user, transaction id) key is
\* marked, by this event or by an earlier one of the same key.
C28_BothShapesAccepted ==
  [][\A u \in RelayUsers, d \in DepositPayloads :
       (handleDepositEvent(u, d) /\ d.amount /\ d.network /\ d.txHash # Null) =>
         cacheKey(u, d.txHash) \in notificationCache']_vars

(***************************************************************************)
(* Claims about the loading messages of the steps.                         *)
(***************************************************************************)
\* C29: a step that has shown a loading message does not end with that
\* message still showing the placeholder, and when a call of the step
\* failed it ends with an error text in the chat.
C29_PlaceholderReplaced ==
  lastPlaceholder # Absent =>
    /\ lastPlaceholder.final # "placeholder"
    /\ lastPlaceholder.failed => lastPlaceholder.told

C31_InvalidAddressStays ==
  /\ (/\ lastAddress # Absent
      /\ lastAddress.delivered
      /\ badAddress(lastAddress.text)) =>
        /\ lastAddress.reprompted
        /\ lastAddress.how = "stay"
        /\ scene = "transfer-scene"
        /\ cursor = lastAddress.cursor
  /\ \A i \in DOMAIN requests :
       (/\ requests[i].endpoint = "/api/transfers/wallet-withdraw"
        /\ requests[i].body.walletAddress # Null) =>
          ~badAddress(requests[i].body.walletAddress)

\* C32: an execution request is issued only in the confirmation state: the
\* summary of the current flow is on show, the recipient(s) and the amount(s)
\* have been taken in that flow, and a transfer to one recipient stands at
\* step 5.
C32_ExecOnlyAtConfirmation ==
  lastExec # Absent =>
    /\ lastExec.shown
    /\ lastExec.complete
    /\ lastExec.endpoint # "/api/transfers/send-batch" => lastExec.cursor = 4

\* C33: a step whose edit of the message of current_message_id is refused
\* (while Telegram accepts new messages) sends a new message, stores its id,
\* and ends without an error leaving the handler.
C33_EditFailureRecovered ==
  (lastPrompt # Absent /\ lastPrompt.replies) =>
    /\ lastPrompt.resent
    /\ lastPrompt.how # "throw"

(***************************************************************************)
(* Claims about the callbacks of setTimeout.                               *)
(***************************************************************************)
\* C34: a callback of setTimeout that runs when the scene that set it has
\* been left (or is no longer the flow that set it) shows nothing in the chat
\* and does not read the data of the scene session.
C34_NoLateContinuation ==
  (lastLate # Absent /\ ~lastLate.active) => (~lastLate.shows /\ ~lastLate.reads)

(***************************************************************************)
(* Claims about the stored credentials.                                    *)
(***************************************************************************)
\* C35: whenever getOrganizationId returns an organization id for a user,
\* the store getUserToken reads holds a token of that user.
C35_OrgImpliesToken ==
  \A u \in GwUsers : getOrganizationId(Orgs, u) # Null => entryLeft(Stores, u)

\* C36: every token in a store, that of a login as that of a refresh, has
\* an absolute expiresAt.
C36_StoredTokenExpires ==
  \A u \in GwUsers :
    /\ redisTokens[u] # Absent => redisTokens[u].tok.expiresAt # Undefined
    /\ TOKENS[u] # Absent => TOKENS[u].expiresAt # Undefined

(***************************************************************************)
(* Claims about overlapping confirmations.                                 *)
(***************************************************************************)
\* the execution requests that the handler of an update has issued
issuedBy(h) ==
  {i \in DOMAIN requests :
     requests[i].update = h.update /\ requests[i].endpoint \in ExecEndpoints}

\* C37: of the confirm handlers of one flow that await their execution call
\* at the same time, at most one has issued an execution request.
C37_OneExecutionPerFlow ==
  \A h, g \in inFlight :
    (\E i \in issuedBy(h), j \in issuedBy(g) : requests[i].run = requests[j].run) => h = g

(***************************************************************************)
(* Claims about the report of an execution.                                *)
(***************************************************************************)
\* C38: a handler whose execution request the API accepted does not show
\* the failure message, whatever Telegram does with its later edits and
\* replies.
C38_NoFailureAfterAccept ==
  (lastExec # Absent /\ lastExec.accepted) => ~lastExec.reported

(***************************************************************************)
(* Claims about the data of an execution request.                          *)
(***************************************************************************)
\* C39: the request that a Confirm of a transfer to one recipient issues
\* carries the recipient, the amount and the source wallet of the summary
\* that is on show when Confirm is pressed.
C39_RequestMatchesSummary ==
  [][(/\ lastExec' # Absent
      /\ lastExec'.endpoint # "/api/transfers/send-batch"
      /\ summary # Absent) =>
        LET body == requests'[Len(requests')].body
        IN /\ body.entered = summary.amount
           /\ body.walletId = summary.walletId
           /\ (IF lastExec'.endpoint = "/api/transfers/send"
                 THEN body.payeeId ELSE body.walletAddress) = summary.recipient]_vars


(***************************************************************************)
(*          Claims about the subscriptions of the relay                    *)
(***************************************************************************)
\* the chat messages sent for the deposit event of a transaction
messagesOf(txHash) ==
  {i \in DOMAIN messages : messages[i].key = cacheKey(InstanceUser, txHash)}

\* C40: a deposit event that the upstream publishes once yields at most one
\* chat message for the user, whatever the order of the subscribe calls, the
\* connection events and the handler invocations; the subscriptions under
\* both channel names and on every connect come to a single subscription with
\* a single 'deposit' handler bound
C40_OneMessagePerDeposit ==
  /\ handlersOf(bindings) <= 1
  /\ \A txHash \in published : Cardinality(messagesOf(txHash)) <= 1

=============================================================================
